---- MODULE Spec2Model ----
(***************************************************************************)
(* Shelf sensor node (ESP32): Wi-Fi credential rotation, broker link,      *)
(* command router, slot store with persistence, calibration, scan loop.    *)
(* Modelled from RPI_Data_Base/Sensor/{Main_project,Shelf_manager}.ino and *)
(* the multi-credential wifi_manager / mDNS mqtt_manager variants.         *)
(***************************************************************************)
EXTENDS Integers, Sequences, FiniteSets, TLC

(***************************************************************************)
(* Single-precision arithmetic.  A float is [m, e] standing for m * 2^e,  *)
(* with 2^23 <= |m| < 2^24, or m = 0.  Only the operations the code       *)
(* performs on positive values are defined, each rounding to nearest-even *)
(* as IEEE-754 binary32 does.  All intermediate integers stay below 2^31. *)
(***************************************************************************)
RECURSIVE Pow2(_)
Pow2(n) == IF n <= 0 THEN 1 ELSE 2 * Pow2(n - 1)

F32Zero == [m |-> 0, e |-> 0]

F32MinusOne == [m |-> -8388608, e |-> -23]

\* q (+ a fraction num/den in [0,1)) at exponent e, rounded to nearest-even
\* and renormalised when the mantissa carries into 2^24.
F32Pack(q, num, den, e) ==
  LET up == (2 * num > den) \/ (2 * num = den /\ q % 2 = 1)
      r  == IF up THEN q + 1 ELSE q
  IN  IF r = 16777216 THEN [m |-> 8388608, e |-> e + 1] ELSE [m |-> r, e |-> e]

\* The positive rational (n / d) * 2^e rounded to a float.
RECURSIVE F32Round(_, _, _)
F32Round(n, d, e) ==
  IF n < 2048 * d THEN F32Round(4096 * n, d, e - 12)
  ELSE IF n < 524288 * d THEN F32Round(16 * n, d, e - 4)
  ELSE IF n < 8388608 * d THEN F32Round(2 * n, d, e - 1)
  ELSE IF n >= 16777216 * d THEN F32Round(n, 2 * d, e + 1)
  ELSE F32Pack(n \div d, n % d, d, e)

\* a + b for a, b >= 0.
F32Add(a, b) ==
  IF a.m = 0 THEN b
  ELSE IF b.m = 0 THEN a
  ELSE LET hi  == IF a.e >= b.e THEN a ELSE b
           lo  == IF a.e >= b.e THEN b ELSE a
           sh  == hi.e - lo.e
       IN  IF sh > 24 THEN hi
           ELSE LET p   == Pow2(sh)
                    t   == hi.m + (lo.m \div p)
                    rem == lo.m % p
                IN  IF t < 16777216
                    THEN F32Pack(t, rem, p, hi.e)
                    ELSE F32Pack(t \div 2, (t % 2) * p + rem, 2 * p, hi.e + 1)

\* a / k for a float a > 0 and an integer k > 0 (k converted exactly).
F32DivInt(a, k) == F32Round(a.m, k, a.e)

\* (long) mm / 10.0 assigned to a float.  The quotient is formed in double
\* and narrowed; n/10 is never within 2^-53 of a binary32 midpoint, so the
\* two roundings agree with one rounding of the exact quotient.
F32OfTenth(mm) == IF mm = 0 THEN F32Zero ELSE F32Round(mm, 10, 0)

\* x > 0 on floats.
F32Positive(x) == x.m > 0

\* String(x, 2): the value in hundredths as dtostrf prints it (adds 0.005,
\* then truncates).  Defined for |x| < 2^23.
F32Hundredths(x) ==
  IF x.m = 0 THEN 0
  ELSE LET a   == IF x.m < 0 THEN -x.m ELSE x.m
           den == Pow2(-x.e)
           h   == (a * 100 + (den \div 2)) \div den
       IN  IF x.m < 0 THEN -h ELSE h


\* printf("%.1f", x) for x >= 0: the value in tenths, rounded to nearest.
F32Tenths(x) ==
  IF x.m = 0 THEN 0
  ELSE LET den == Pow2(-x.e)
       IN  (x.m * 10 + (den \div 2)) \div den

(***************************************************************************)
(* Arduino String operations.  A string is a sequence of one-character    *)
(* strings, so that case conversion, trimming and searching are computed. *)
(***************************************************************************)
LowerLetters ==
  <<"a","b","c","d","e","f","g","h","i","j","k","l","m",
    "n","o","p","q","r","s","t","u","v","w","x","y","z">>

UpperLetters ==
  <<"A","B","C","D","E","F","G","H","I","J","K","L","M",
    "N","O","P","Q","R","S","T","U","V","W","X","Y","Z">>

IsSpace(c) == c \in {" ", "\t", "\n", "\r"}

ToLowerChar(c) ==
  IF \E k \in 1..26 : UpperLetters[k] = c
  THEN LowerLetters[CHOOSE k \in 1..26 : UpperLetters[k] = c] ELSE c

ToUpperChar(c) ==
  IF \E k \in 1..26 : LowerLetters[k] = c
  THEN UpperLetters[CHOOSE k \in 1..26 : LowerLetters[k] = c] ELSE c

\* String::toLowerCase / String::toUpperCase
ToLowerCase(str) == [k \in 1..Len(str) |-> ToLowerChar(str[k])]

ToUpperCase(str) == [k \in 1..Len(str) |-> ToUpperChar(str[k])]

\* String::trim: leading and trailing whitespace removed.
RECURSIVE TrimLeft(_)
TrimLeft(str) ==
  IF str # <<>> /\ IsSpace(Head(str)) THEN TrimLeft(Tail(str)) ELSE str

RECURSIVE TrimRight(_)
TrimRight(str) ==
  IF str # <<>> /\ IsSpace(str[Len(str)])
  THEN TrimRight(SubSeq(str, 1, Len(str) - 1)) ELSE str

Trim(str) == TrimRight(TrimLeft(str))

\* String::startsWith
StartsWith(str, prefix) ==
  Len(prefix) <= Len(str) /\ SubSeq(str, 1, Len(prefix)) = prefix

\* String::substring(from): the characters from 0-based index `from` on.
Substring(str, from) ==
  IF from >= Len(str) THEN <<>> ELSE SubSeq(str, from + 1, Len(str))

\* String::indexOf(sub): 0-based index of the first occurrence, or -1.
RECURSIVE IndexOfFrom(_, _, _)
IndexOfFrom(str, sub, k) ==
  IF k + Len(sub) > Len(str) THEN -1
  ELSE IF SubSeq(str, k + 1, k + Len(sub)) = sub THEN k
  ELSE IndexOfFrom(str, sub, k + 1)

IndexOf(str, sub) == IndexOfFrom(str, sub, 0)

(***************************************************************************)
(* Static configuration.                                                   *)
(***************************************************************************)
\* Number of slots the model keeps of the source's table of 12.
MaxShelves == 2

SHELF_COUNT == MaxShelves

\* shelfConfig[i].id of the static table, in table order.
ShelfIdTable ==
  << <<"A","1">>, <<"A","2">>, <<"A","3">>, <<"A","4">>,
     <<"B","1">>, <<"B","2">>, <<"B","3">>, <<"B","4">>,
     <<"C","1">>, <<"C","2">>, <<"C","3">>, <<"C","4">> >>

\* shelfConfig[i].pin of the static table.
ShelfPin(i) == i + 4

Slots == 0..(SHELF_COUNT - 1)

ShelfId(i) == ShelfIdTable[i + 1]

\* The compiled-in table: every slot disabled and not calibrated.
ShelfConfigInit == [i \in Slots |-> [enabled |-> FALSE, shelf_length |-> F32Zero]]

\* long distance[SHELF_COUNT] = {0}
DistanceInit == [i \in Slots |-> 0]

\* Valid range of a ranging sample, in millimetres.
RANGE_MIN_MM == 20

RANGE_MAX_MM == 4000

CALIBRATE_SAMPLES == 10

MIN_VALID_SAMPLES == 5

(***************************************************************************)
(* Persistent store (Preferences, namespace "shelf"): a function from the *)
(* keys present to their values.                                           *)
(***************************************************************************)
EnabledKey(i) == ShelfId(i)

LengthKey(i) == ShelfId(i) \o <<"_","l","e","n">>

PrefsGet(prefs, key, default) ==
  IF key \in DOMAIN prefs THEN prefs[key] ELSE default

PrefsPut(prefs, key, value) ==
  [k \in (DOMAIN prefs) \cup {key} |-> IF k = key THEN value ELSE prefs[k]]

PrefsEmpty == [k \in {} |-> FALSE]

(***************************************************************************)
(* Slot store (Shelf_manager.ino).  Operations map a node state s (a      *)
(* record of the program's variables) to the state they leave.            *)
(***************************************************************************)
\* Variant of loadShelfConfig that keeps the in-memory value of a slot whose
\* key is absent from the store.
loadShelfConfig_KeepMissing(s) ==
  [s EXCEPT !.shelfConfig =
     [i \in Slots |->
        [enabled      |-> PrefsGet(s.prefs, EnabledKey(i), s.shelfConfig[i].enabled),
         shelf_length |-> PrefsGet(s.prefs, LengthKey(i), s.shelfConfig[i].shelf_length)]]]

loadShelfConfig(s) ==
  [s EXCEPT !.shelfConfig =
     [i \in Slots |->
        [enabled      |-> PrefsGet(s.prefs, EnabledKey(i), FALSE),
         shelf_length |-> PrefsGet(s.prefs, LengthKey(i), F32Zero)]]]

\* Variant of saveShelfConfig that writes the enabled flag only.
saveShelfConfig_FlagOnly(s, shelfIndex) ==
  IF shelfIndex < 0 \/ shelfIndex >= SHELF_COUNT THEN s
  ELSE [s EXCEPT !.prefs = PrefsPut(@, EnabledKey(shelfIndex),
                                   s.shelfConfig[shelfIndex].enabled)]

saveShelfConfig(s, shelfIndex) ==
  IF shelfIndex < 0 \/ shelfIndex >= SHELF_COUNT THEN s
  ELSE [s EXCEPT !.prefs =
          PrefsPut(PrefsPut(@, EnabledKey(shelfIndex),
                            s.shelfConfig[shelfIndex].enabled),
                   LengthKey(shelfIndex),
                   s.shelfConfig[shelfIndex].shelf_length)]

\* Variant of clearAllShelfConfig that removes the enabled flags and leaves
\* the stored lengths.
clearAllShelfConfig_KeepLengths(s) ==
  [s EXCEPT !.prefs =
     [key \in (DOMAIN @) \ {EnabledKey(i) : i \in Slots} |-> @[key]]]

clearAllShelfConfig(s) == [s EXCEPT !.prefs = PrefsEmpty]

\* s.calls records the slot-store calls made by the handler in progress.
SetEnabledCall(shelfIndex, enabled) ==
  [fn |-> "setShelfEnabled", idx |-> shelfIndex, enabled |-> enabled]

CalibrateCall(shelfIndex, samples, ret) ==
  [fn |-> "calibrateShelf", idx |-> shelfIndex, samples |-> samples, ret |-> ret]

\* Variant of setShelfEnabled that changes the flag in memory only.
setShelfEnabled_NoSave(s, shelfIndex, enabled) ==
  IF shelfIndex >= 0 /\ shelfIndex < SHELF_COUNT
  THEN [s EXCEPT !.shelfConfig[shelfIndex].enabled = enabled,
                 !.calls = Append(@, SetEnabledCall(shelfIndex, enabled))]
  ELSE s

\* setShelfEnabled: set the flag, then saveShelfConfig of the slot.
setShelfEnabled(s, shelfIndex, enabled) ==
  IF shelfIndex >= 0 /\ shelfIndex < SHELF_COUNT
  THEN saveShelfConfig([s EXCEPT !.shelfConfig[shelfIndex].enabled = enabled,
                                 !.calls = Append(@, SetEnabledCall(shelfIndex, enabled))],
                       shelfIndex)
  ELSE s

RECURSIVE getShelfIndexByIdFrom(_, _)
getShelfIndexByIdFrom(shelfId, i) ==
  IF i >= SHELF_COUNT THEN -1
  ELSE IF ShelfId(i) = shelfId THEN i
  ELSE getShelfIndexByIdFrom(shelfId, i + 1)

\* Variant of getShelfIndexById that compares without regard to case.
getShelfIndexById_IgnoreCase(shelfId) == getShelfIndexByIdFrom(ToUpperCase(shelfId), 0)

getShelfIndexById(shelfId) == getShelfIndexByIdFrom(shelfId, 0)

isShelfEnabled(s, shelfIndex) ==
  IF shelfIndex < 0 \/ shelfIndex >= SHELF_COUNT THEN FALSE
  ELSE s.shelfConfig[shelfIndex].enabled

getEnabledShelfCount(s) == Cardinality({i \in Slots : s.shelfConfig[i].enabled})

\* Variant of readAllShelfSensors that rejects the two ends of the range.
readAllShelfSensors_ExclusiveRange(s, raw) ==
  [s EXCEPT
     !.distance = [i \in Slots |->
        IF ~s.shelfConfig[i].enabled THEN -1
        ELSE IF raw[i] <= RANGE_MIN_MM \/ raw[i] >= RANGE_MAX_MM THEN -1
        ELSE raw[i]],
     !.measured = @ \cup {i \in Slots : s.shelfConfig[i].enabled},
     !.readings = [i \in {j \in Slots : s.shelfConfig[j].enabled} |-> raw[i]]]

\* Variant of readAllShelfSensors that also keeps the samples in the store.
readAllShelfSensors_SavesSamples(s, raw) ==
  [s EXCEPT
     !.distance = [i \in Slots |->
        IF ~s.shelfConfig[i].enabled THEN -1
        ELSE IF raw[i] < RANGE_MIN_MM \/ raw[i] > RANGE_MAX_MM THEN -1
        ELSE raw[i]],
     !.measured = @ \cup {i \in Slots : s.shelfConfig[i].enabled},
     !.readings = [i \in {j \in Slots : s.shelfConfig[j].enabled} |-> raw[i]],
     !.prefs = PrefsPut(@, <<"m","m">>, raw)]

\* Variant of readAllShelfSensors that reads the sensor of every slot.
readAllShelfSensors_EverySlot(s, raw) ==
  [s EXCEPT
     !.distance = [i \in Slots |->
        IF raw[i] < RANGE_MIN_MM \/ raw[i] > RANGE_MAX_MM THEN -1 ELSE raw[i]],
     !.measured = @ \cup Slots,
     !.readings = [i \in Slots |-> raw[i]]]

\* One scan: raw[i] is what the ranging sensor of slot i would return (mm).
\* s.measured collects the slots whose sensor was actually read and
\* s.readings what each of them returned.
readAllShelfSensors(s, raw) ==
  [s EXCEPT
     !.distance = [i \in Slots |->
        IF ~s.shelfConfig[i].enabled THEN -1
        ELSE IF raw[i] < RANGE_MIN_MM \/ raw[i] > RANGE_MAX_MM THEN -1
        ELSE raw[i]],
     !.measured = @ \cup {i \in Slots : s.shelfConfig[i].enabled},
     !.readings = [i \in {j \in Slots : s.shelfConfig[j].enabled} |-> raw[i]]]

(***************************************************************************)
(* Calibration (calibrateShelf).                                           *)
(***************************************************************************)
SampleValid(distMm) == distMm >= RANGE_MIN_MM /\ distMm <= RANGE_MAX_MM

\* validReadings[]: the valid samples, in centimetres, in sampling order.
RECURSIVE ValidReadings(_)
ValidReadings(samples) ==
  IF samples = <<>> THEN <<>>
  ELSE IF SampleValid(Head(samples))
       THEN <<F32OfTenth(Head(samples))>> \o ValidReadings(Tail(samples))
       ELSE ValidReadings(Tail(samples))

\* for (i < validCount) sum += validReadings[i], starting from sum.
RECURSIVE SumReadings(_, _)
SumReadings(readings, sum) ==
  IF readings = <<>> THEN sum
  ELSE SumReadings(Tail(readings), F32Add(sum, Head(readings)))

\* Variant of the average rounded to one decimal place.
CalibrationAverage_RoundedToTenth(samples) ==
  LET readings == ValidReadings(samples)
      avg == F32DivInt(SumReadings(readings, F32Zero), Len(readings))
      h == F32Hundredths(avg)
  IN  F32Round((h + 5) \div 10, 10, 0)

\* Variant of the average taken over all samples, out-of-range ones included.
CalibrationAverage_AllSamples(samples) ==
  LET RECURSIVE All(_)
      All(q) == IF q = <<>> THEN <<>> ELSE <<F32OfTenth(Head(q))>> \o All(Tail(q))
  IN  F32DivInt(SumReadings(All(samples), F32Zero), Len(samples))

\* average = sum / validCount over validReadings[].
CalibrationAverage(samples) ==
  LET readings == ValidReadings(samples)
  IN  F32DivInt(SumReadings(readings, F32Zero), Len(readings))

\* Variant of calibrateShelf that stores and saves the average before it
\* tests the number of valid samples.
calibrateShelf_StoreBeforeCheck(s, shelfIndex, samples) ==
  IF shelfIndex < 0 \/ shelfIndex >= SHELF_COUNT
  THEN [st |-> s, ret |-> F32MinusOne]
  ELSE LET validCount == Len(ValidReadings(samples))
           average == IF validCount = 0 THEN F32Zero ELSE CalibrationAverage(samples)
           ret == IF validCount < MIN_VALID_SAMPLES THEN F32MinusOne ELSE average
           m == [s EXCEPT !.measured = @ \cup {shelfIndex},
                          !.calls = Append(@, CalibrateCall(shelfIndex, samples, ret))]
       IN  [st  |-> saveShelfConfig(
                      [m EXCEPT !.shelfConfig[shelfIndex].shelf_length = average],
                      shelfIndex),
            ret |-> ret]

\* calibrateShelf(shelfIndex) with the 10 samples the sensor returns:
\* [st |-> the state left, ret |-> the float returned].
calibrateShelf(s, shelfIndex, samples) ==
  IF shelfIndex < 0 \/ shelfIndex >= SHELF_COUNT
  THEN [st |-> s, ret |-> F32MinusOne]
  ELSE LET validCount == Len(ValidReadings(samples))
           ret == IF validCount < MIN_VALID_SAMPLES THEN F32MinusOne
                  ELSE CalibrationAverage(samples)
           m == [s EXCEPT !.measured = @ \cup {shelfIndex},
                          !.calls = Append(@, CalibrateCall(shelfIndex, samples, ret))]
       IN  IF validCount < MIN_VALID_SAMPLES
           THEN [st |-> m, ret |-> ret]
           ELSE [st  |-> saveShelfConfig(
                           [m EXCEPT !.shelfConfig[shelfIndex].shelf_length = ret],
                           shelfIndex),
                 ret |-> ret]

(***************************************************************************)
(* Network associator (wifi_manager, multi-credential variant).            *)
(***************************************************************************)
\* Number of entries of wifiList the model keeps.
MaxWiFi == 2

WIFI_COUNT == MaxWiFi

Credentials == 0..(WIFI_COUNT - 1)

\* WiFi.status() values other than WL_CONNECTED that the radio reports.
NotConnectedStatuses == {"WL_DISCONNECTED", "WL_CONNECTION_LOST", "WL_NO_SSID_AVAIL"}

\* TryConnectWiFi(wifiList[idx]): WiFi.disconnect(true), WiFi.begin, wait up
\* to SINGLE_WIFI_TIMEOUT for WL_CONNECTED.  `ok` is whether the network
\* answered in time and `failStatus` what the radio reports when it did not.
\* s.attempts records the attempts of the rotation in progress.
\* Variant of TryConnectWiFi without the WiFi.disconnect(true): an attempt
\* that fails leaves the radio as it was.
TryConnectWiFi_NoDisconnect(s, idx, ok, failStatus) ==
  [s EXCEPT !.attempts = Append(@, [idx |-> idx, ok |-> ok]),
            !.wifiStatus = IF ok THEN "WL_CONNECTED"
                           ELSE IF s.wifiAssoc = -1 THEN failStatus ELSE @,
            !.wifiAssoc = IF ok THEN idx ELSE @]

TryConnectWiFi(s, idx, ok, failStatus) ==
  LET d == [s EXCEPT !.wifiStatus = "WL_DISCONNECTED", !.wifiAssoc = -1]
  IN  [d EXCEPT !.attempts = Append(@, [idx |-> idx, ok |-> ok]),
                !.wifiStatus = IF ok THEN "WL_CONNECTED" ELSE failStatus,
                !.wifiAssoc = IF ok THEN idx ELSE @]

\* Variant of the rotation loop whose index stops at the last entry instead
\* of wrapping around.
RECURSIVE RotateFromNoModulo(_, _, _, _)
RotateFromNoModulo(s, i, outcome, failStatus) ==
  IF i >= WIFI_COUNT THEN [s EXCEPT !.wifiConnected = FALSE]
  ELSE LET tryIndex == IF s.lastSuccessfulWiFiIndex + i < WIFI_COUNT
                       THEN s.lastSuccessfulWiFiIndex + i ELSE WIFI_COUNT - 1
           t == TryConnectWiFi(s, tryIndex, outcome[tryIndex], failStatus)
       IN  IF outcome[tryIndex]
           THEN [t EXCEPT !.wifiConnected = TRUE,
                          !.lastSuccessfulWiFiIndex = tryIndex,
                          !.currentTryIndex = tryIndex]
           ELSE RotateFromNoModulo(t, i + 1, outcome, failStatus)

\* Variant of the rotation loop that does not record the successful index.
RECURSIVE RotateFromNoRecord(_, _, _, _)
RotateFromNoRecord(s, i, outcome, failStatus) ==
  IF i >= WIFI_COUNT THEN [s EXCEPT !.wifiConnected = FALSE]
  ELSE LET tryIndex == (s.lastSuccessfulWiFiIndex + i) % WIFI_COUNT
           t == TryConnectWiFi(s, tryIndex, outcome[tryIndex], failStatus)
       IN  IF outcome[tryIndex]
           THEN [t EXCEPT !.wifiConnected = TRUE,
                          !.currentTryIndex = tryIndex]
           ELSE RotateFromNoRecord(t, i + 1, outcome, failStatus)

\* Variant of the rotation loop that moves the cursor to the next entry when
\* every credential has failed.
RECURSIVE RotateFromAdvanceOnFail(_, _, _, _)
RotateFromAdvanceOnFail(s, i, outcome, failStatus) ==
  IF i >= WIFI_COUNT
  THEN [s EXCEPT !.wifiConnected = FALSE,
                 !.lastSuccessfulWiFiIndex = (@ + 1) % WIFI_COUNT]
  ELSE LET tryIndex == (s.lastSuccessfulWiFiIndex + i) % WIFI_COUNT
           t == TryConnectWiFi(s, tryIndex, outcome[tryIndex], failStatus)
       IN  IF outcome[tryIndex]
           THEN [t EXCEPT !.wifiConnected = TRUE,
                          !.lastSuccessfulWiFiIndex = tryIndex,
                          !.currentTryIndex = tryIndex]
           ELSE RotateFromAdvanceOnFail(t, i + 1, outcome, failStatus)

\* The rotation loop shared by setupWiFi and ConnectWiFi, from position i.
RECURSIVE RotateFrom(_, _, _, _)
RotateFrom(s, i, outcome, failStatus) ==
  IF i >= WIFI_COUNT THEN [s EXCEPT !.wifiConnected = FALSE]
  ELSE LET tryIndex == (s.lastSuccessfulWiFiIndex + i) % WIFI_COUNT
           t == TryConnectWiFi(s, tryIndex, outcome[tryIndex], failStatus)
       IN  IF outcome[tryIndex]
           THEN [t EXCEPT !.wifiConnected = TRUE,
                          !.lastSuccessfulWiFiIndex = tryIndex,
                          !.currentTryIndex = tryIndex]
           ELSE RotateFrom(t, i + 1, outcome, failStatus)

setupWiFi(s, outcome, failStatus) == RotateFrom(s, 0, outcome, failStatus)

ConnectWiFi(s, outcome, failStatus) == RotateFrom(s, 0, outcome, failStatus)

\* s.polled records that the check ran in the handler in progress.
CheckWiFiConnection(s) ==
  LET c == [s EXCEPT !.polled = TRUE]
  IN  IF s.wifiStatus = "WL_CONNECTED" THEN [c EXCEPT !.wifiConnected = TRUE]
      ELSE IF s.wifiStatus = "WL_DISCONNECTED" THEN [c EXCEPT !.wifiConnected = FALSE]
      ELSE c

\* checkDue: millis() - lastCheckTime >= 60000.
HostWiFiManager(s, checkDue, outcome, failStatus) ==
  LET c == IF checkDue THEN CheckWiFiConnection(s) ELSE s
  IN  IF c.wifiConnected THEN c ELSE ConnectWiFi(c, outcome, failStatus)

(***************************************************************************)
(* Broker link (mqtt_manager, mDNS variant).                               *)
(***************************************************************************)
\* const char* mqtt_server_ip = "192.168.0.109"
mqtt_server_ip == <<"1","9","2",".","1","6","8",".","0",".","1","0","9">>

Digits == <<"0","1","2","3","4","5","6","7","8","9">>

IsDigit(c) == \E k \in 1..10 : Digits[k] = c

DigitValue(c) == (CHOOSE k \in 1..10 : Digits[k] = c) - 1

ZeroAddress == <<0, 0, 0, 0>>

\* IPAddress::fromString for dotted-quad text: [ok, ip].  acc = -1 stands
\* for "no digit since the last dot".
RECURSIVE FromString4(_, _, _, _)
FromString4(str, acc, dots, bytes) ==
  IF str = <<>>
  THEN IF dots # 3 \/ acc < 0 THEN [ok |-> FALSE, ip |-> bytes]
       ELSE [ok |-> TRUE, ip |-> [bytes EXCEPT ![4] = acc]]
  ELSE LET c == Head(str)
       IN  IF IsDigit(c)
           THEN LET a == IF acc < 0 THEN DigitValue(c) ELSE acc * 10 + DigitValue(c)
                IN  IF a > 255 THEN [ok |-> FALSE, ip |-> bytes]
                    ELSE FromString4(Tail(str), a, dots, bytes)
           ELSE IF c = "."
           THEN IF dots = 3 \/ acc < 0 THEN [ok |-> FALSE, ip |-> bytes]
                ELSE FromString4(Tail(str), -1, dots + 1,
                                 [bytes EXCEPT ![dots + 1] = acc])
           ELSE [ok |-> FALSE, ip |-> bytes]

IPFromString(str) == FromString4(str, -1, 0, ZeroAddress)

\* s.resolveLog records each call of resolveMQTTServer made by the handler
\* in progress: the answer it got, what it returned and what it left.
LogResolve(st, dns, ret) ==
  [st EXCEPT !.resolveLog =
     Append(@, [dns |-> dns, ret |-> ret, ip |-> st.mqtt_server_resolved_ip,
                resolved |-> st.mqtt_ip_resolved])]

\* The static fallback of resolveMQTTServer (method 2).
ResolveFallback(s, dns) ==
  LET f == IPFromString(mqtt_server_ip)
      g == [s EXCEPT !.mqtt_server_resolved_ip = f.ip]
  IN  IF f.ok
      THEN [st |-> LogResolve([g EXCEPT !.mqtt_ip_resolved = TRUE], dns, TRUE),
            ret |-> TRUE]
      ELSE [st |-> LogResolve([g EXCEPT !.mqtt_ip_resolved = FALSE], dns, FALSE),
            ret |-> FALSE]

\* Variant of resolveMQTTServer that accepts any answer of a successful lookup.
resolveMQTTServer_AcceptAny(s, dns) ==
  LET h == [s EXCEPT !.mqtt_server_resolved_ip = dns.ip]
  IN  IF dns.ok
      THEN [st |-> LogResolve([h EXCEPT !.mqtt_ip_resolved = TRUE], dns, TRUE),
            ret |-> TRUE]
      ELSE ResolveFallback(h, dns)

\* resolveMQTTServer with the name service's answer dns = [ok, ip]
\* (WiFi.hostByName's return value and what it leaves in the address).
\* [st |-> state left, ret |-> value returned].
resolveMQTTServer(s, dns) ==
  LET h == [s EXCEPT !.mqtt_server_resolved_ip = dns.ip]
  IN  IF dns.ok /\ (dns.ip[1] # 0 \/ dns.ip[2] # 0 \/ dns.ip[3] # 0 \/ dns.ip[4] # 0)
      THEN [st |-> LogResolve([h EXCEPT !.mqtt_ip_resolved = TRUE], dns, TRUE),
            ret |-> TRUE]
      ELSE ResolveFallback(h, dns)

(***************************************************************************)
(* Topics and outbound messages.  {id} is this device's identity.          *)
(***************************************************************************)
\* device_id = "ESP32S3_" + the chip's serial in upper-case hex (one value).
device_id == <<"E","S","P","3","2","S","3","_","7","C","D","F">>

\* Another device's identity, for requests addressed elsewhere.
other_device_id == <<"E","S","P","3","2","S","3","_","0","0","A","1">>

mqtt_topic_sensor == "shelf/sensor"

mqtt_topic_status == "shelf/status"

mqtt_topic_command == "shelf/command"

mqtt_topic_discovery == "shelf/discovery"

mqtt_topic_discovery_response == "shelf/discovery/response"

mqtt_topic_heartbeat == "shelf/heartbeat"

mqtt_topic_heartbeat_response == "shelf/heartbeat/response"

device_command_topic == "shelf/{id}/command"

device_config_request_topic == "shelf/{id}/config/request"

device_config_response_topic == "shelf/{id}/config/response"

device_calibrate_response_topic == "shelf/{id}/calibrate/response"

\* Variant of the subscription list that keeps the legacy command topic.
SubscribedTopics_WithLegacy ==
  {device_command_topic, mqtt_topic_discovery, mqtt_topic_heartbeat,
   device_config_request_topic, mqtt_topic_command}

\* Variant of the subscription list with the broadcast command topic in
\* place of the device's own.
SubscribedTopics_Broadcast ==
  {mqtt_topic_command, mqtt_topic_discovery, mqtt_topic_heartbeat,
   device_config_request_topic}

\* The topics reconnectMQTT subscribes to.
SubscribedTopics ==
  {device_command_topic, mqtt_topic_discovery, mqtt_topic_heartbeat,
   device_config_request_topic}

\* Variant of mqttClient.publish that sends whatever the session's state.
Publish_Unguarded(s, msg) == [s EXCEPT !.outbox = Append(@, msg)]

\* mqttClient.publish: sends only over a connected session, queues nothing.
Publish(s, msg) ==
  IF s.mqttConnected THEN [s EXCEPT !.outbox = Append(@, msg)] ELSE s

publishStatus(s, status) ==
  IF ~s.mqttConnected THEN s
  ELSE Publish(s, [topic |-> mqtt_topic_status, text |-> status])

publishSystemStatus(s) ==
  IF ~s.mqttConnected THEN s
  ELSE Publish(s, [topic |-> mqtt_topic_status,
                   device_id |-> device_id,
                   wifi |-> IF s.wifiStatus = "WL_CONNECTED"
                            THEN "connected" ELSE "disconnected",
                   mqtt |-> "connected",
                   shelf_count |-> SHELF_COUNT,
                   enabled_shelf_count |-> getEnabledShelfCount(s)])

\* "%.1f" of distance / 10.0 (a float): the value printed, in tenths.
DistanceTenths(mm) ==
  IF mm < 0 THEN -F32Tenths(F32OfTenth(-mm)) ELSE F32Tenths(F32OfTenth(mm))

SensorMessage(s, shelfIndex) ==
  [topic |-> mqtt_topic_sensor,
   device_id |-> device_id,
   shelf_id |-> ShelfId(shelfIndex),
   index |-> shelfIndex,
   distance_cm_tenths |-> DistanceTenths(s.distance[shelfIndex]),
   enabled |-> TRUE]

publishSensorData(s, shelfIndex) ==
  IF ~s.mqttConnected THEN s
  ELSE IF shelfIndex < 0 \/ shelfIndex >= SHELF_COUNT THEN s
  ELSE IF ~s.shelfConfig[shelfIndex].enabled THEN s
  ELSE Publish(s, SensorMessage(s, shelfIndex))

\* The loop of publishAllSensorData from slot i on.
RECURSIVE PublishSensorsFrom(_, _)
PublishSensorsFrom(s, i) ==
  IF i >= SHELF_COUNT THEN s
  ELSE IF s.shelfConfig[i].enabled
       THEN PublishSensorsFrom(publishSensorData(s, i), i + 1)
       ELSE PublishSensorsFrom(s, i + 1)

\* Variant of publishAllSensorData that publishes every slot's sample.
RECURSIVE PublishEverySlotFrom(_, _)
PublishEverySlotFrom(s, i) ==
  IF i >= SHELF_COUNT THEN s
  ELSE PublishEverySlotFrom(Publish(s, SensorMessage(s, i)), i + 1)

\* Variant of publishAllSensorData that leaves out the slots without a reading.
RECURSIVE PublishReadingsFrom(_, _)
PublishReadingsFrom(s, i) ==
  IF i >= SHELF_COUNT THEN s
  ELSE IF s.shelfConfig[i].enabled /\ s.distance[i] # -1
       THEN PublishReadingsFrom(publishSensorData(s, i), i + 1)
       ELSE PublishReadingsFrom(s, i + 1)

publishAllSensorData_OnlyReadings(s) ==
  IF ~s.mqttConnected THEN s ELSE PublishReadingsFrom(s, 0)

publishAllSensorData_EverySlot(s) ==
  IF ~s.mqttConnected THEN s ELSE PublishEverySlotFrom(s, 0)

publishAllSensorData(s) ==
  IF ~s.mqttConnected THEN s ELSE PublishSensorsFrom(s, 0)

isMQTTConnected(s) == s.mqttConnected

\* Variant of publishCalibrateResult that reports successes only.
publishCalibrateResult_SuccessOnly(s, shelfId, length, success) ==
  IF ~s.mqttConnected \/ ~success THEN s
  ELSE Publish(s, [topic |-> device_calibrate_response_topic,
                   device_id |-> device_id,
                   shelf_id |-> shelfId,
                   success |-> success,
                   shelf_length_hundredths |-> F32Hundredths(length)])

publishCalibrateResult(s, shelfId, length, success) ==
  IF ~s.mqttConnected THEN s
  ELSE Publish(s, [topic |-> device_calibrate_response_topic,
                   device_id |-> device_id,
                   shelf_id |-> shelfId,
                   success |-> success,
                   shelf_length_hundredths |-> F32Hundredths(length)])


(***************************************************************************)
(* Broker connection.  accept: whether the broker at the configured       *)
(* address accepts the connection.                                         *)
(***************************************************************************)
\* s.connectLog records each mqttClient.connect made by the handler in
\* progress: the server it used and the radio status at that moment.
LogConnect(s) ==
  [s EXCEPT !.connectLog = Append(@, [server |-> s.mqttServer, wifi |-> s.wifiStatus])]

\* mqttClient.setServer(mqtt_server_ip, port): the static text, parsed on use.
StaticServer == IPFromString(mqtt_server_ip).ip

\* reconnectMQTT past its WiFi.status() test: resolve if the cache is
\* invalid, connect, then subscribe and announce, or invalidate the cache.
\* Variant that keeps the cached address after a refused connect.
ConnectBroker_KeepCache(s, dns, accept) ==
  LET r == IF ~s.mqtt_ip_resolved
           THEN LET x == resolveMQTTServer(s, dns)
                IN  IF x.ret
                    THEN [x.st EXCEPT !.mqttServer = x.st.mqtt_server_resolved_ip]
                    ELSE [x.st EXCEPT !.mqttServer = StaticServer]
           ELSE s
      c == LogConnect(r)
  IN  IF accept
      THEN publishStatus([c EXCEPT !.mqttConnected = TRUE,
                                   !.subscriptions = SubscribedTopics],
                         "online")
      ELSE c

ConnectBroker(s, dns, accept) ==
  LET r == IF ~s.mqtt_ip_resolved
           THEN LET x == resolveMQTTServer(s, dns)
                IN  IF x.ret
                    THEN [x.st EXCEPT !.mqttServer = x.st.mqtt_server_resolved_ip]
                    ELSE [x.st EXCEPT !.mqttServer = StaticServer]
           ELSE s
      c == LogConnect(r)
  IN  IF accept
      THEN publishStatus([c EXCEPT !.mqttConnected = TRUE,
                                   !.subscriptions = SubscribedTopics],
                         "online")
      ELSE [c EXCEPT !.mqtt_ip_resolved = FALSE]

reconnectMQTT(s, dns, accept) ==
  IF s.wifiStatus # "WL_CONNECTED" THEN s ELSE ConnectBroker(s, dns, accept)

setupMQTT(s, dns, accept) ==
  LET x == resolveMQTTServer(s, dns)
      r == IF x.st.mqtt_ip_resolved
           THEN [x.st EXCEPT !.mqttServer = x.st.mqtt_server_resolved_ip]
           ELSE [x.st EXCEPT !.mqttServer = StaticServer]
  IN  IF r.wifiStatus = "WL_CONNECTED" THEN reconnectMQTT(r, dns, accept) ELSE r

(***************************************************************************)
(* Command router.                                                         *)
(***************************************************************************)
VerbStatus == <<"s","t","a","t","u","s">>

VerbRead == <<"r","e","a","d">>

VerbEnable == <<"e","n","a","b","l","e"," ">>

VerbDisable == <<"d","i","s","a","b","l","e"," ">>

VerbCalibrate == <<"c","a","l","i","b","r","a","t","e"," ">>

\* Variant of the identifier extraction that keeps the sender's letter case.
CommandShelfId_KeepCase(originalCommand, n) == Trim(Substring(originalCommand, n))

\* The slot identifier a command carries after its verb of length n.
CommandShelfId(originalCommand, n) == ToUpperCase(Trim(Substring(originalCommand, n)))

\* Variant of handleMQTTCommand that reports the system status before it
\* changes the flag.
handleMQTTCommand_StatusBeforeChange(s, message, samples, raw) ==
  LET originalCommand == Trim(message)
      command == ToLowerCase(originalCommand)
  IN  IF command = VerbStatus THEN publishSystemStatus(s)
      ELSE IF command = VerbRead
      THEN publishAllSensorData(readAllShelfSensors(s, raw))
      ELSE IF StartsWith(command, VerbEnable)
      THEN LET idx == getShelfIndexById(CommandShelfId(originalCommand, 7))
           IN  IF idx >= 0 THEN setShelfEnabled(publishSystemStatus(s), idx, TRUE)
               ELSE s
      ELSE IF StartsWith(command, VerbDisable)
      THEN LET idx == getShelfIndexById(CommandShelfId(originalCommand, 8))
           IN  IF idx >= 0 THEN setShelfEnabled(publishSystemStatus(s), idx, FALSE)
               ELSE s
      ELSE IF StartsWith(command, VerbCalibrate)
      THEN LET shelfId == CommandShelfId(originalCommand, 10)
               idx == getShelfIndexById(shelfId)
           IN  IF idx >= 0
               THEN LET c == calibrateShelf(s, idx, samples)
                    IN  publishCalibrateResult(c.st, shelfId, c.ret, F32Positive(c.ret))
               ELSE publishCalibrateResult(s, shelfId, F32MinusOne, FALSE)
      ELSE s

\* Variant of handleMQTTCommand that answers an unknown command with a status.
handleMQTTCommand_ReplyUnknown(s, message, samples, raw) ==
  LET originalCommand == Trim(message)
      command == ToLowerCase(originalCommand)
  IN  IF command = VerbStatus THEN publishSystemStatus(s)
      ELSE IF command = VerbRead
      THEN publishAllSensorData(readAllShelfSensors(s, raw))
      ELSE IF StartsWith(command, VerbEnable)
      THEN LET idx == getShelfIndexById(CommandShelfId(originalCommand, 7))
           IN  IF idx >= 0 THEN publishSystemStatus(setShelfEnabled(s, idx, TRUE))
               ELSE s
      ELSE IF StartsWith(command, VerbDisable)
      THEN LET idx == getShelfIndexById(CommandShelfId(originalCommand, 8))
           IN  IF idx >= 0 THEN publishSystemStatus(setShelfEnabled(s, idx, FALSE))
               ELSE s
      ELSE IF StartsWith(command, VerbCalibrate)
      THEN LET shelfId == CommandShelfId(originalCommand, 10)
               idx == getShelfIndexById(shelfId)
           IN  IF idx >= 0
               THEN LET c == calibrateShelf(s, idx, samples)
                    IN  publishCalibrateResult(c.st, shelfId, c.ret, F32Positive(c.ret))
               ELSE publishCalibrateResult(s, shelfId, F32MinusOne, FALSE)
      ELSE publishStatus(s, "unknown command")

\* samples: what the sensor returns if the command calibrates;
\* raw: what the sensors return if the command reads.
handleMQTTCommand(s, message, samples, raw) ==
  LET originalCommand == Trim(message)
      command == ToLowerCase(originalCommand)
  IN  IF command = VerbStatus THEN publishSystemStatus(s)
      ELSE IF command = VerbRead
      THEN publishAllSensorData(readAllShelfSensors(s, raw))
      ELSE IF StartsWith(command, VerbEnable)
      THEN LET idx == getShelfIndexById(CommandShelfId(originalCommand, 7))
           IN  IF idx >= 0 THEN publishSystemStatus(setShelfEnabled(s, idx, TRUE))
               ELSE s
      ELSE IF StartsWith(command, VerbDisable)
      THEN LET idx == getShelfIndexById(CommandShelfId(originalCommand, 8))
           IN  IF idx >= 0 THEN publishSystemStatus(setShelfEnabled(s, idx, FALSE))
               ELSE s
      ELSE IF StartsWith(command, VerbCalibrate)
      THEN LET shelfId == CommandShelfId(originalCommand, 10)
               idx == getShelfIndexById(shelfId)
           IN  IF idx >= 0
               THEN LET c == calibrateShelf(s, idx, samples)
                    IN  publishCalibrateResult(c.st, shelfId, c.ret, F32Positive(c.ret))
               ELSE publishCalibrateResult(s, shelfId, F32MinusOne, FALSE)
      ELSE s

\* The enabled slots' identifiers, in slot order, from slot i on.
RECURSIVE EnabledIdsFrom(_, _)
EnabledIdsFrom(s, i) ==
  IF i >= SHELF_COUNT THEN <<>>
  ELSE IF s.shelfConfig[i].enabled
       THEN <<ShelfId(i)>> \o EnabledIdsFrom(s, i + 1)
       ELSE EnabledIdsFrom(s, i + 1)

\* Variant of handleDiscoveryRequest that lists every slot of the table.
handleDiscoveryRequest_AllSlots(s, message) ==
  Publish(s, [topic |-> mqtt_topic_discovery_response,
              device_id |-> device_id,
              shelves |-> [k \in 1..SHELF_COUNT |-> ShelfId(k - 1)],
              total_shelves |-> SHELF_COUNT,
              enabled_shelves |-> getEnabledShelfCount(s)])

handleDiscoveryRequest(s, message) ==
  Publish(s, [topic |-> mqtt_topic_discovery_response,
              device_id |-> device_id,
              shelves |-> EnabledIdsFrom(s, 0),
              total_shelves |-> SHELF_COUNT,
              enabled_shelves |-> getEnabledShelfCount(s)])

handleHeartbeatRequest(s, message) ==
  Publish(s, [topic |-> mqtt_topic_heartbeat_response,
              device_id |-> device_id,
              status |-> "online"])

\* The text "device_id" in quotes, as the request names its target.
DeviceIdFieldName == <<"\"","d","e","v","i","c","e","_","i","d","\"">>

\* One entry of the configuration response.
ConfigEntry(s, i) ==
  [shelf_id |-> ShelfId(i),
   index |-> i,
   gpio |-> ShelfPin(i),
   enabled |-> s.shelfConfig[i].enabled,
   shelf_length_hundredths |-> F32Hundredths(s.shelfConfig[i].shelf_length)]

handleShelfConfigRequest(s, message) ==
  IF Len(message) > 0 /\ IndexOf(message, device_id) < 0
     /\ IndexOf(message, DeviceIdFieldName) >= 0
  THEN s
  ELSE Publish(s, [topic |-> device_config_response_topic,
                   device_id |-> device_id,
                   shelves |-> [k \in 1..SHELF_COUNT |-> ConfigEntry(s, k - 1)],
                   total_count |-> SHELF_COUNT,
                   enabled_count |-> getEnabledShelfCount(s)])

\* The publishing operations, by name.
PublishingOps ==
  {"publishStatus", "publishSystemStatus", "publishSensorData",
   "publishAllSensorData", "publishCalibrateResult", "handleDiscoveryRequest",
   "handleHeartbeatRequest", "handleShelfConfigRequest"}

\* One call of the publishing operation op, for slot i where it takes one.
ApplyPublish(s, op, i) ==
  CASE op = "publishStatus" -> publishStatus(s, "online")
    [] op = "publishSystemStatus" -> publishSystemStatus(s)
    [] op = "publishSensorData" -> publishSensorData(s, i)
    [] op = "publishAllSensorData" -> publishAllSensorData(s)
    [] op = "publishCalibrateResult" ->
         publishCalibrateResult(s, ShelfId(i), s.shelfConfig[i].shelf_length,
                                F32Positive(s.shelfConfig[i].shelf_length))
    [] op = "handleDiscoveryRequest" -> handleDiscoveryRequest(s, <<>>)
    [] op = "handleHeartbeatRequest" -> handleHeartbeatRequest(s, <<>>)
    [] op = "handleShelfConfigRequest" -> handleShelfConfigRequest(s, <<>>)

mqttCallback(s, topic, message, samples, raw) ==
  LET h == [s EXCEPT !.handled = [topic |-> topic, payload |-> message]]
  IN  IF topic = device_command_topic THEN handleMQTTCommand(h, message, samples, raw)
      ELSE IF topic = mqtt_topic_command THEN handleMQTTCommand(h, message, samples, raw)
      ELSE IF topic = mqtt_topic_discovery THEN handleDiscoveryRequest(h, message)
      ELSE IF topic = mqtt_topic_heartbeat THEN handleHeartbeatRequest(h, message)
      ELSE IF topic = device_config_request_topic THEN handleShelfConfigRequest(h, message)
      ELSE h

\* No inbound message buffered.
NoMessage == [topic |-> "", payload |-> <<>>]

\* Variant of handleMQTTConnection that attempts the broker without looking
\* at the radio.
handleMQTTConnection_NoWiFiCheck(s, inbound, statusDue, reconnectDue, dns, accept, samples, raw) ==
  IF s.mqttConnected
  THEN LET d == IF inbound = NoMessage THEN s
                ELSE mqttCallback(s, inbound.topic, inbound.payload, samples, raw)
       IN  IF statusDue THEN publishSystemStatus([d EXCEPT !.periodic = TRUE]) ELSE d
  ELSE IF reconnectDue
       THEN ConnectBroker(s, dns, accept)
       ELSE s

\* handleMQTTConnection.  inbound: the message mqttClient.loop() dispatches,
\* or NoMessage; statusDue: now - lastStatusPublish >= STATUS_PUBLISH_INTERVAL;
\* reconnectDue: now - lastMQTTReconnect >= MQTT_RECONNECT_INTERVAL.
\* s.periodic records that the periodic status block ran.
handleMQTTConnection(s, inbound, statusDue, reconnectDue, dns, accept, samples, raw) ==
  IF s.mqttConnected
  THEN LET d == IF inbound = NoMessage THEN s
                ELSE mqttCallback(s, inbound.topic, inbound.payload, samples, raw)
       IN  IF statusDue THEN publishSystemStatus([d EXCEPT !.periodic = TRUE]) ELSE d
  ELSE IF s.wifiStatus = "WL_CONNECTED" /\ reconnectDue
       THEN reconnectMQTT(s, dns, accept)
       ELSE s

\* Variant of the scan part of loop() that first services the broker session
\* and dispatches a pending "disable A1".
scanCycle_ServicesBroker(s, scanDue, raw) ==
  LET d == IF s.mqttConnected
           THEN mqttCallback(s, device_command_topic, VerbDisable \o ShelfId(0),
                             <<>>, raw)
           ELSE s
  IN  IF ~scanDue THEN d
      ELSE LET r == readAllShelfSensors(d, raw)
           IN  IF isMQTTConnected(r) THEN publishAllSensorData(r) ELSE r

\* Variant of the scan part of loop() that publishes before it reads.
scanCycle_PublishBeforeRead(s, scanDue, raw) ==
  IF ~scanDue THEN s
  ELSE readAllShelfSensors(IF isMQTTConnected(s) THEN publishAllSensorData(s) ELSE s,
                           raw)

\* The scan part of loop().  scanDue: millis() - lastSensorRead >= SENSOR_READ_INTERVAL.
scanCycle(s, scanDue, raw) ==
  IF ~scanDue THEN s
  ELSE LET r == readAllShelfSensors(s, raw)
       IN  IF isMQTTConnected(r) THEN publishAllSensorData(r) ELSE r

\* setup(): getDeviceId, setupWiFi, setupMQTT, setupShelf.
setup(s, outcome, failStatus, dns, accept) ==
  setupMQTT(setupWiFi(s, outcome, failStatus), dns, accept)


(***************************************************************************)
(* State.  The program's globals, the persistent store, the radio and the *)
(* broker session, the control loop's position, and per-step records of   *)
(* what the handler that ran last did (cleared when the next one starts). *)
(***************************************************************************)
VARIABLES
  shelfConfig,              \* [slot -> [enabled, shelf_length]]
  distance,                 \* [slot -> last sample in mm, -1 = no reading]
  prefs,                    \* persistent store
  wifiConnected,
  lastSuccessfulWiFiIndex,
  currentTryIndex,
  wifiStatus,               \* WiFi.status()
  wifiAssoc,                \* credential the radio is associated with, or -1
  mqtt_server_resolved_ip,
  mqtt_ip_resolved,
  mqttServer,               \* address given to mqttClient.setServer
  mqttConnected,            \* mqttClient.connected()
  subscriptions,            \* topics subscribed in the current session
  pc,                       \* "setup", then "wifi" -> "mqtt" -> "scan" -> "wifi"
  attempts,                 \* credentials tried by the last step's rotation
  resolveLog,               \* resolveMQTTServer calls of the last step
  connectLog,               \* mqttClient.connect calls of the last step
  outbox,                   \* messages published by the last step
  measured,                 \* slots whose sensor the last step read
  calls,                    \* slot-store calls of the last step
  handled,                  \* inbound message the last step dispatched
  periodic,                 \* the last step ran the periodic status block
  polled,                   \* the last step ran CheckWiFiConnection
  readings,                 \* [slot read by the last step's scan -> raw return (mm)]
  clock                     \* millis() and the four "last" timestamps, 32 bits each as
                            \* <<high half, low half>>, with what the last test of a
                            \* trigger did

vars ==
  <<shelfConfig, distance, prefs, wifiConnected, lastSuccessfulWiFiIndex,
    currentTryIndex, wifiStatus, wifiAssoc, mqtt_server_resolved_ip,
    mqtt_ip_resolved, mqttServer, mqttConnected, subscriptions, pc, attempts,
    resolveLog, connectLog, outbox, measured, calls, handled, periodic,
    polled, readings, clock>>

\* The current state as a record, with the per-step records cleared.
Cur ==
  [shelfConfig |-> shelfConfig, distance |-> distance, prefs |-> prefs,
   wifiConnected |-> wifiConnected,
   lastSuccessfulWiFiIndex |-> lastSuccessfulWiFiIndex,
   currentTryIndex |-> currentTryIndex,
   wifiStatus |-> wifiStatus, wifiAssoc |-> wifiAssoc,
   mqtt_server_resolved_ip |-> mqtt_server_resolved_ip,
   mqtt_ip_resolved |-> mqtt_ip_resolved, mqttServer |-> mqttServer,
   mqttConnected |-> mqttConnected, subscriptions |-> subscriptions,
   attempts |-> <<>>, resolveLog |-> <<>>, connectLog |-> <<>>,
   outbox |-> <<>>, measured |-> {}, calls |-> <<>>, handled |-> NoMessage,
   periodic |-> FALSE, polled |-> FALSE, readings |-> [i \in {} |-> 0],
   clock |-> clock]

\* The next state is the record s.
Commit(s) ==
  /\ shelfConfig' = s.shelfConfig
  /\ distance' = s.distance
  /\ prefs' = s.prefs
  /\ wifiConnected' = s.wifiConnected
  /\ lastSuccessfulWiFiIndex' = s.lastSuccessfulWiFiIndex
  /\ currentTryIndex' = s.currentTryIndex
  /\ wifiStatus' = s.wifiStatus
  /\ wifiAssoc' = s.wifiAssoc
  /\ mqtt_server_resolved_ip' = s.mqtt_server_resolved_ip
  /\ mqtt_ip_resolved' = s.mqtt_ip_resolved
  /\ mqttServer' = s.mqttServer
  /\ mqttConnected' = s.mqttConnected
  /\ subscriptions' = s.subscriptions
  /\ attempts' = s.attempts
  /\ resolveLog' = s.resolveLog
  /\ connectLog' = s.connectLog
  /\ outbox' = s.outbox
  /\ measured' = s.measured
  /\ calls' = s.calls
  /\ handled' = s.handled
  /\ periodic' = s.periodic
  /\ polled' = s.polled
  /\ readings' = s.readings
  /\ clock' = s.clock

\* The globals as compiled in, over a given persistent store.
PowerOn(store) ==
  [shelfConfig |-> ShelfConfigInit, distance |-> DistanceInit, prefs |-> store,
   wifiConnected |-> FALSE, lastSuccessfulWiFiIndex |-> 0, currentTryIndex |-> 0,
   wifiStatus |-> "WL_IDLE_STATUS", wifiAssoc |-> -1,
   mqtt_server_resolved_ip |-> ZeroAddress, mqtt_ip_resolved |-> FALSE,
   mqttServer |-> ZeroAddress, mqttConnected |-> FALSE, subscriptions |-> {},
   attempts |-> <<>>, resolveLog |-> <<>>, connectLog |-> <<>>,
   outbox |-> <<>>, measured |-> {}, calls |-> <<>>, handled |-> NoMessage,
   periodic |-> FALSE, polled |-> FALSE, readings |-> [i \in {} |-> 0],
   clock |-> [now |-> <<0, 0>>,
              last |-> [t \in {"lastCheckTime", "lastMQTTReconnect",
                               "lastStatusPublish", "lastSensorRead"} |-> <<0, 0>>],
              since |-> [t \in {"lastCheckTime", "lastMQTTReconnect",
                                "lastStatusPublish", "lastSensorRead"} |-> 0],
              tested |-> "", elapsed |-> 0, fired |-> FALSE, passes |-> 0]]

\* A factory-fresh node at power-on, before setup() runs.
Init ==
  LET p == PowerOn(PrefsEmpty)
  IN  /\ shelfConfig = p.shelfConfig
      /\ distance = p.distance
      /\ prefs = p.prefs
      /\ wifiConnected = p.wifiConnected
      /\ lastSuccessfulWiFiIndex = p.lastSuccessfulWiFiIndex
      /\ currentTryIndex = p.currentTryIndex
      /\ wifiStatus = p.wifiStatus
      /\ wifiAssoc = p.wifiAssoc
      /\ mqtt_server_resolved_ip = p.mqtt_server_resolved_ip
      /\ mqtt_ip_resolved = p.mqtt_ip_resolved
      /\ mqttServer = p.mqttServer
      /\ mqttConnected = p.mqttConnected
      /\ subscriptions = p.subscriptions
      /\ attempts = p.attempts
      /\ resolveLog = p.resolveLog
      /\ connectLog = p.connectLog
      /\ outbox = p.outbox
      /\ measured = p.measured
      /\ calls = p.calls
      /\ handled = p.handled
      /\ periodic = p.periodic
      /\ polled = p.polled
      /\ readings = p.readings
      /\ clock = p.clock
      /\ pc = "setup"


(***************************************************************************)
(* Inputs: what the environment may hand to a handler.                     *)
(***************************************************************************)
\* Raw sensor returns (mm): too near, in range, too far.
RawReadings == {10, 250, 5000}

RawScans == [Slots -> RawReadings]

NoRaw == [i \in Slots |-> 0]

\* Ten-sample calibration runs: the documented scenario (8 valid, mean
\* 199.5 mm), a run with exactly 5 valid samples, one with 4 (the range's
\* two ends among them), one with none.
ScenarioSamples == <<198, 201, 199, 15, 202, 197, 4500, 200, 203, 196>>

FiveValidSamples == <<250, 10, 251, 5000, 250, 10, 251, 5000, 250, 0>>

FourValidSamples == <<20, 19, 4000, 4001, 250, 10, 251, 5000, 19, 4001>>

NoValidSamples == <<0, 0, 5000, 5000, 19, 19, 4001, 4001, 10, 10>>

CalibrationRuns == {ScenarioSamples, FiveValidSamples, FourValidSamples, NoValidSamples}

NoSamples == <<>>

\* Name-service answers: hostByName's result and the address it leaves.
DnsAddresses == {ZeroAddress, <<192, 168, 0, 50>>, <<0, 0, 0, 9>>}

DnsAnswers == {[ok |-> b, ip |-> a] : b \in BOOLEAN, a \in DnsAddresses}

DnsDown == {[ok |-> FALSE, ip |-> ZeroAddress]}

\* Per-credential result of an association attempt within its timeout.
WiFiOutcomes == [Credentials -> BOOLEAN]

WiFiAlwaysUp == {[c \in Credentials |-> TRUE]}

\* Inbound messages.
Cmd(verb, id) == verb \o id

SlotCommands ==
  UNION {{[topic |-> device_command_topic, payload |-> Cmd(VerbEnable, ShelfId(i))],
          [topic |-> device_command_topic, payload |-> Cmd(VerbDisable, ShelfId(i))],
          [topic |-> device_command_topic, payload |-> Cmd(VerbCalibrate, ShelfId(i))]}
         : i \in Slots}

QueryMessages ==
  {[topic |-> device_command_topic, payload |-> VerbStatus],
   [topic |-> device_command_topic, payload |-> VerbRead],
   [topic |-> mqtt_topic_discovery, payload |-> <<>>],
   [topic |-> mqtt_topic_heartbeat, payload |-> <<>>],
   [topic |-> device_config_request_topic, payload |-> <<>>],
   [topic |-> device_config_request_topic,
    payload |-> <<"{">> \o DeviceIdFieldName \o <<":","\"">> \o device_id \o <<"\"","}">>],
   [topic |-> device_config_request_topic,
    payload |-> <<"{">> \o DeviceIdFieldName \o <<":","\"">> \o other_device_id \o <<"\"","}">>],
   [topic |-> device_config_request_topic,
    payload |-> <<"{">> \o DeviceIdFieldName \o <<":","\"">> \o device_id
                  \o <<"1","2","\"","}">>]}

OddCommands ==
  {[topic |-> device_command_topic, payload |-> <<" ","E","n","a","b","l","e"," "," ","a","1"," ">>],
   [topic |-> device_command_topic, payload |-> Cmd(VerbEnable, <<"Z","9">>)],
   [topic |-> device_command_topic, payload |-> Cmd(VerbCalibrate, <<"Z","9">>)],
   [topic |-> device_command_topic, payload |-> <<"e","n","a","b","l","e"," ","a","1">>],
   [topic |-> device_command_topic, payload |-> <<"D","I","S","A","B","L","E"," "," ","a","1">>],
   [topic |-> device_command_topic, payload |-> <<"e","n","a","b","l","e">>],
   [topic |-> device_command_topic, payload |-> <<"c","a","l","i","b","r","a","t","e"," ">>],
   [topic |-> device_command_topic, payload |-> <<"r","e","b","o","o","t">>],
   [topic |-> device_command_topic, payload |-> <<>>],
   [topic |-> mqtt_topic_command, payload |-> Cmd(VerbEnable, ShelfId(0))]}

\* Enable and disable commands in mixed case with stray blanks, per slot.
CaseVariants ==
  UNION {{[topic |-> device_command_topic,
           payload |-> <<" ","E","n","a","b","l","e"," "," ">>
                         \o ToLowerCase(ShelfId(i)) \o <<" ">>],
          [topic |-> device_command_topic,
           payload |-> <<"D","I","S","A","B","L","E"," "," ">>
                         \o ToLowerCase(ShelfId(i))]}
         : i \in Slots}

AllMessages == SlotCommands \cup QueryMessages \cup OddCommands \cup CaseVariants

\* Whether dispatching m asks the sensor for calibration samples / a scan.
IsCommandTopic(m) == m.topic \in {device_command_topic, mqtt_topic_command}

WantsSamples(m) ==
  IsCommandTopic(m) /\ StartsWith(ToLowerCase(Trim(m.payload)), VerbCalibrate)

WantsScan(m) == IsCommandTopic(m) /\ ToLowerCase(Trim(m.payload)) = VerbRead

\* An environment: the inputs the handlers may be given.
NodeEnv ==
  [outcomes |-> WiFiAlwaysUp, dns |-> DnsDown, inbound |-> AllMessages,
   raws |-> [Slots -> {250, 5000}],
   runs |-> {ScenarioSamples, FourValidSamples, NoValidSamples},
   statusDue |-> BOOLEAN, accept |-> BOOLEAN]

NetEnv ==
  [outcomes |-> WiFiOutcomes, dns |-> DnsAnswers, inbound |-> QueryMessages,
   raws |-> RawScans, runs |-> CalibrationRuns, statusDue |-> BOOLEAN,
   accept |-> BOOLEAN]

\* Calibration under every ten-sample run over three sensor returns: one
\* out of range and two in range whose centimetre values are not exact in
\* single precision.
SampleValues == {19, 203, 3999}

CalibrateCommands ==
  {[topic |-> device_command_topic, payload |-> Cmd(VerbCalibrate, ShelfId(i))]
   : i \in Slots}

CalEnv ==
  [outcomes |-> WiFiAlwaysUp, dns |-> DnsDown, inbound |-> CalibrateCommands,
   raws |-> {NoRaw}, runs |-> [1..CALIBRATE_SAMPLES -> SampleValues],
   statusDue |-> {FALSE}, accept |-> BOOLEAN]

(***************************************************************************)
(* Actions: one per handler of the control loop, plus the environment.    *)
(***************************************************************************)
\* setup()
SetupStep(E) ==
  /\ pc = "setup"
  /\ \E outcome \in E.outcomes, failStatus \in NotConnectedStatuses,
        dns \in E.dns, accept \in E.accept :
       Commit(setup(Cur, outcome, failStatus, dns, accept))
  /\ pc' = "wifi"

\* loop(): HostWiFiManager()
WiFiStep(E) ==
  /\ pc = "wifi"
  /\ \E checkDue \in BOOLEAN, outcome \in E.outcomes,
        failStatus \in NotConnectedStatuses :
       Commit(HostWiFiManager(Cur, checkDue, outcome, failStatus))
  /\ pc' = "mqtt"

\* The messages the broker may deliver: those on a subscribed topic.
Deliverable(E) == {m \in E.inbound : m.topic \in subscriptions}

\* loop(): handleMQTTConnection()
MqttStep(E) ==
  /\ pc = "mqtt"
  /\ IF mqttConnected
     THEN \E inbound \in Deliverable(E) \cup {NoMessage}, statusDue \in E.statusDue :
            \E samples \in IF WantsSamples(inbound) THEN E.runs ELSE {NoSamples},
               raw \in IF WantsScan(inbound) THEN E.raws ELSE {NoRaw} :
              Commit(handleMQTTConnection(Cur, inbound, statusDue, FALSE,
                                          CHOOSE d \in E.dns : TRUE, FALSE, samples, raw))
     ELSE \E reconnectDue \in BOOLEAN, dns \in E.dns, accept \in E.accept :
            Commit(handleMQTTConnection(Cur, NoMessage, FALSE, reconnectDue,
                                        dns, accept, NoSamples, NoRaw))
  /\ pc' = "scan"

\* loop(): the periodic scan
ScanStep(E) ==
  /\ pc = "scan"
  /\ \E scanDue \in BOOLEAN :
       \E raw \in IF scanDue THEN E.raws ELSE {NoRaw} :
         Commit(scanCycle(Cur, scanDue, raw))
  /\ pc' = "wifi"

\* The broker session ends (broker or TCP failure).
BrokerDrop ==
  /\ mqttConnected
  /\ Commit([Cur EXCEPT !.mqttConnected = FALSE, !.subscriptions = {}])
  /\ UNCHANGED pc

\* The radio loses its association.
LinkLoss ==
  /\ wifiStatus = "WL_CONNECTED"
  /\ \E status \in NotConnectedStatuses :
       Commit([Cur EXCEPT !.wifiStatus = status, !.wifiAssoc = -1])
  /\ UNCHANGED pc

\* Power cycle or reset: RAM is re-initialised, the persistent store kept.
Restart ==
  /\ pc # "setup"
  /\ Commit(PowerOn(prefs))
  /\ pc' = "setup"

\* The node on a stable network: every command, scan and broker event.
Next ==
  \/ SetupStep(NodeEnv)
  \/ WiFiStep(NodeEnv)
  \/ MqttStep(NodeEnv)
  \/ ScanStep(NodeEnv)
  \/ BrokerDrop
  \/ Restart

Spec == Init /\ [][Next]_vars

\* The node's connectivity under every network and name-service behaviour,
\* with the inbound traffic limited to queries.
NextNet ==
  \/ SetupStep(NetEnv)
  \/ WiFiStep(NetEnv)
  \/ MqttStep(NetEnv)
  \/ ScanStep(NetEnv)
  \/ BrokerDrop
  \/ LinkLoss
  \/ Restart

SpecNet == Init /\ [][NextNet]_vars


\* One calibration command on a freshly started node, under every run.
NextCal ==
  \/ SetupStep(CalEnv)
  \/ WiFiStep(CalEnv)
  \/ MqttStep(CalEnv)

SpecCal == Init /\ [][NextCal]_vars

\* Connectivity restored: every configured network answers and the broker
\* accepts, for the whole run.
LiveEnv ==
  [outcomes |-> WiFiAlwaysUp, dns |-> DnsAnswers, inbound |-> QueryMessages,
   raws |-> RawScans, runs |-> CalibrationRuns, statusDue |-> BOOLEAN,
   accept |-> {TRUE}]

\* The radio loses its association while the broker session is up, and the
\* session ends with it.  (It takes an established session to lose, so a run
\* with infinitely many outages has a session infinitely often.)
Outage ==
  /\ mqttConnected
  /\ wifiStatus = "WL_CONNECTED"
  /\ \E status \in NotConnectedStatuses :
       Commit([Cur EXCEPT !.wifiStatus = status, !.wifiAssoc = -1,
                          !.mqttConnected = FALSE, !.subscriptions = {}])
  /\ UNCHANGED pc

\* A HostWiFiManager pass in which the 60 s check is due.
PollDue(E) ==
  /\ pc = "wifi"
  /\ \E outcome \in E.outcomes, failStatus \in NotConnectedStatuses :
       Commit(HostWiFiManager(Cur, TRUE, outcome, failStatus))
  /\ pc' = "mqtt"

\* A handleMQTTConnection pass, session down, in which the 5 s reconnect
\* interval has elapsed.
ReconnectDue(E) ==
  /\ pc = "mqtt"
  /\ ~mqttConnected
  /\ \E dns \in E.dns, accept \in E.accept :
       Commit(handleMQTTConnection(Cur, NoMessage, FALSE, TRUE,
                                   dns, accept, NoSamples, NoRaw))
  /\ pc' = "scan"

NextLive ==
  \/ SetupStep(LiveEnv)
  \/ WiFiStep(LiveEnv)
  \/ MqttStep(LiveEnv)
  \/ ScanStep(LiveEnv)
  \/ Outage

\* loop() keeps running, and as millis() advances the 60 s check and the
\* 5 s reconnect interval come due again and again.
SpecLive ==
  /\ Init
  /\ [][NextLive]_vars
  /\ WF_vars(ScanStep(LiveEnv))
  /\ SF_vars(PollDue(LiveEnv))
  /\ SF_vars(ReconnectDue(LiveEnv))

\* loadShelfConfig on its own: every store that holds, for each slot, no
\* flag, false or true, and no length, 0.0 or 199.5, against every in-memory
\* table of flags and lengths 0.0 or 25.0.
LoadInit ==
  \E e \in [Slots -> 0..2], l \in [Slots -> 0..2],
     mem \in [Slots -> [enabled : BOOLEAN, shelf_length : {F32Zero, F32OfTenth(250)}]] :
    LET keys  == {EnabledKey(i) : i \in {j \in Slots : e[j] # 0}}
                 \cup {LengthKey(i) : i \in {j \in Slots : l[j] # 0}}
        store == [key \in keys |->
                    IF \E i \in Slots : key = EnabledKey(i)
                    THEN e[CHOOSE i \in Slots : key = EnabledKey(i)] = 2
                    ELSE IF l[CHOOSE i \in Slots : key = LengthKey(i)] = 2
                         THEN F32OfTenth(1995) ELSE F32Zero]
        p     == [PowerOn(store) EXCEPT !.shelfConfig = mem]
    IN  /\ shelfConfig = p.shelfConfig
        /\ distance = p.distance
        /\ prefs = p.prefs
        /\ wifiConnected = p.wifiConnected
        /\ lastSuccessfulWiFiIndex = p.lastSuccessfulWiFiIndex
        /\ currentTryIndex = p.currentTryIndex
        /\ wifiStatus = p.wifiStatus
        /\ wifiAssoc = p.wifiAssoc
        /\ mqtt_server_resolved_ip = p.mqtt_server_resolved_ip
        /\ mqtt_ip_resolved = p.mqtt_ip_resolved
        /\ mqttServer = p.mqttServer
        /\ mqttConnected = p.mqttConnected
        /\ subscriptions = p.subscriptions
        /\ attempts = p.attempts
        /\ resolveLog = p.resolveLog
        /\ connectLog = p.connectLog
        /\ outbox = p.outbox
        /\ measured = p.measured
        /\ calls = p.calls
        /\ handled = p.handled
        /\ periodic = p.periodic
        /\ polled = p.polled
        /\ readings = p.readings
        /\ clock = p.clock
        /\ pc = "load"

\* One call of loadShelfConfig; s.calls records it.
LoadCall ==
  /\ pc = "load"
  /\ Commit([loadShelfConfig(Cur) EXCEPT !.calls = <<[fn |-> "loadShelfConfig"]>>])
  /\ pc' = "setup"

SpecLoad == LoadInit /\ [][LoadCall]_vars

\* Scans at the ends of the accepted range: the enable, disable and read
\* commands, and sensors that return 19, 20, 4000 or 4001 mm.
ScanEnv ==
  [outcomes |-> WiFiAlwaysUp, dns |-> DnsDown,
   inbound |-> {m \in SlotCommands : ~StartsWith(m.payload, VerbCalibrate)}
                 \cup {[topic |-> device_command_topic, payload |-> VerbRead]},
   raws |-> [Slots -> {19, 20, 4000, 4001}], runs |-> {NoSamples},
   statusDue |-> {FALSE}, accept |-> {TRUE}]

NextScan ==
  \/ SetupStep(ScanEnv)
  \/ WiFiStep(ScanEnv)
  \/ MqttStep(ScanEnv)
  \/ ScanStep(ScanEnv)
  \/ BrokerDrop

SpecScan == Init /\ [][NextScan]_vars

\* A publishing operation called on the node as it stands, whatever the
\* state of the broker session; s.calls records which one.
PublishCall ==
  /\ pc # "setup"
  /\ \E op \in PublishingOps, i \in Slots :
       Commit([ApplyPublish(Cur, op, i) EXCEPT !.calls = <<[fn |-> op, idx |-> i]>>])
  /\ UNCHANGED pc

\* The node under every network behaviour, with the publishing operations
\* callable in every state.
NextPub ==
  \/ SetupStep(NetEnv)
  \/ WiFiStep(NetEnv)
  \/ MqttStep(NetEnv)
  \/ ScanStep(NetEnv)
  \/ BrokerDrop
  \/ LinkLoss
  \/ Restart
  \/ PublishCall

SpecPub == Init /\ [][NextPub]_vars

\* The slot store's interface called directly between two passes of loop(),
\* on a node that takes enable, disable and calibrate commands.
StoreEnv ==
  [outcomes |-> WiFiAlwaysUp, dns |-> DnsDown, inbound |-> SlotCommands,
   raws |-> [Slots -> {250}], runs |-> {ScenarioSamples, NoValidSamples},
   statusDue |-> {FALSE}, accept |-> {TRUE}]

\* clearAllShelfConfig()
ClearCall ==
  /\ pc = "wifi"
  /\ Commit([clearAllShelfConfig(Cur) EXCEPT !.calls = <<[fn |-> "clearAllShelfConfig"]>>])
  /\ UNCHANGED pc

\* loadShelfConfig(), at boot before setup() or between two passes
ReloadCall ==
  /\ pc \in {"setup", "wifi"}
  /\ Commit([loadShelfConfig(Cur) EXCEPT !.calls = <<[fn |-> "loadShelfConfig"]>>])
  /\ UNCHANGED pc

\* getShelfIndexById(shelfId), called with every table entry, its lower-case
\* spelling, a prefix, an extension, a padded one, the empty string and an
\* identifier past the end of the table; s.calls records the argument and
\* the return.
LookupCall ==
  /\ pc = "wifi"
  /\ \E shelfId \in {ShelfId(i) : i \in Slots}
                     \cup {ToLowerCase(ShelfId(i)) : i \in Slots}
                     \cup {<<"A">>, <<"A","1","0">>, <<"A","1"," ">>, <<>>,
                           ShelfIdTable[SHELF_COUNT + 1]} :
       Commit([Cur EXCEPT !.calls = <<[fn |-> "getShelfIndexById", id |-> shelfId,
                                       ret |-> getShelfIndexById(shelfId)]>>])
  /\ UNCHANGED pc

NextStore ==
  \/ SetupStep(StoreEnv)
  \/ WiFiStep(StoreEnv)
  \/ MqttStep(StoreEnv)
  \/ ScanStep(StoreEnv)
  \/ BrokerDrop
  \/ Restart
  \/ ClearCall
  \/ ReloadCall
  \/ LookupCall

SpecStore == Init /\ [][NextStore]_vars

\* WiFi.begin returns at once and TryConnectWiFi only stops waiting for it:
\* after a rotation that failed, the association begun by its last attempt
\* may still complete.
LateAssociation ==
  /\ pc # "setup"
  /\ ~wifiConnected
  /\ wifiStatus # "WL_CONNECTED"
  /\ Commit([Cur EXCEPT !.wifiStatus = "WL_CONNECTED",
                        !.wifiAssoc = (lastSuccessfulWiFiIndex + WIFI_COUNT - 1) % WIFI_COUNT])
  /\ UNCHANGED pc

\* The node's connectivity with the radio completing an association late.
NextRadio ==
  \/ SetupStep(NetEnv)
  \/ WiFiStep(NetEnv)
  \/ MqttStep(NetEnv)
  \/ ScanStep(NetEnv)
  \/ BrokerDrop
  \/ LinkLoss
  \/ Restart
  \/ LateAssociation

SpecRadio == Init /\ [][NextRadio]_vars

\* Number of trigger tests the clock specification follows.
MaxPasses == 4

\* Variant of the trigger test that compares the clock with the deadline
\* last + interval, the sum taken in 32 bits.
TriggerDue_AbsoluteDeadline(now, last, interval) ==
  LET lo    == last[2] + (interval % 65536)
      carry == IF lo >= 65536 THEN 1 ELSE 0
      dl    == <<(last[1] + (interval \div 65536) + carry) % 65536, lo % 65536>>
  IN  now[1] > dl[1] \/ (now[1] = dl[1] /\ now[2] >= dl[2])

\* millis() - last >= interval, in unsigned 32-bit arithmetic.
TriggerDue(now, last, interval) ==
  LET borrow == IF now[2] < last[2] THEN 1 ELSE 0
      lo     == now[2] - last[2] + 65536 * borrow
      hi     == (now[1] - last[1] - borrow + 65536) % 65536
  IN  hi > interval \div 65536
        \/ (hi = interval \div 65536 /\ lo >= interval % 65536)

\* The clock at 0 (boot), 30 s before it wraps, and 1 ms before it wraps, on
\* a node whose four triggers have just fired.
ClockInit ==
  \E now \in {<<0, 0>>, <<65535, 35536>>, <<65535, 65535>>} :
    LET p == [PowerOn(PrefsEmpty) EXCEPT
                !.clock.now = now,
                !.clock.last = [t \in DOMAIN @ |-> now]]
    IN  /\ shelfConfig = p.shelfConfig
        /\ distance = p.distance
        /\ prefs = p.prefs
        /\ wifiConnected = p.wifiConnected
        /\ lastSuccessfulWiFiIndex = p.lastSuccessfulWiFiIndex
        /\ currentTryIndex = p.currentTryIndex
        /\ wifiStatus = p.wifiStatus
        /\ wifiAssoc = p.wifiAssoc
        /\ mqtt_server_resolved_ip = p.mqtt_server_resolved_ip
        /\ mqtt_ip_resolved = p.mqtt_ip_resolved
        /\ mqttServer = p.mqttServer
        /\ mqttConnected = p.mqttConnected
        /\ subscriptions = p.subscriptions
        /\ attempts = p.attempts
        /\ resolveLog = p.resolveLog
        /\ connectLog = p.connectLog
        /\ outbox = p.outbox
        /\ measured = p.measured
        /\ calls = p.calls
        /\ handled = p.handled
        /\ periodic = p.periodic
        /\ polled = p.polled
        /\ readings = p.readings
        /\ clock = p.clock
        /\ pc = "clock"

\* Time passes (10 ms, 4.99 s, 30 s or 60 s) and one of the four triggers
\* is tested: the Wi-Fi check of HostWiFiManager, the reconnect or the
\* status trigger of handleMQTTConnection, the scan trigger of loop().  A
\* trigger that is due stores the clock in its timestamp.  clock.since is
\* the time really passed since each trigger fired, clock.elapsed that of
\* the trigger tested, at the test.
ClockPass ==
  /\ pc = "clock"
  /\ clock.passes < MaxPasses
  /\ \E dt \in {10, 4990, 30000, 60000}, t \in DOMAIN clock.last :
       LET interval == [lastCheckTime |-> 60000, lastMQTTReconnect |-> 5000,
                        lastStatusPublish |-> 30000, lastSensorRead |-> 5000]
           lo  == clock.now[2] + dt
           now == <<(clock.now[1] + (lo \div 65536)) % 65536, lo % 65536>>
           due == TriggerDue(now, clock.last[t], interval[t])
       IN  Commit([Cur EXCEPT
                     !.clock = [now     |-> now,
                                last    |-> [clock.last EXCEPT
                                               ![t] = IF due THEN now ELSE @],
                                since   |-> [u \in DOMAIN clock.since |->
                                               IF u = t /\ due THEN 0
                                               ELSE clock.since[u] + dt],
                                tested  |-> t,
                                elapsed |-> clock.since[t] + dt,
                                fired   |-> due,
                                passes  |-> clock.passes + 1]])
  /\ UNCHANGED pc

SpecClock == ClockInit /\ [][ClockPass]_vars

(***************************************************************************)
(* Properties.                                                             *)
(***************************************************************************)
\* Positions of the samples of a run that lie in the accepted range, and
\* the sum in millimetres of the samples at a set of positions.
InRange(samples) == {k \in DOMAIN samples : samples[k] >= 20 /\ samples[k] <= 4000}

RECURSIVE SumAt(_, _)
SumAt(samples, ks) ==
  IF ks = {} THEN 0
  ELSE LET k == CHOOSE x \in ks : TRUE
       IN  samples[k] + SumAt(samples, ks \ {k})

\* A float x >= 0 in thousandths, truncated.
F32Thousandths(x) ==
  IF x.m = 0 THEN 0
  ELSE LET den == Pow2(-x.e)
       IN  (x.m \div den) * 1000 + ((x.m % den) * 125) \div (den \div 8)

Abs(n) == IF n < 0 THEN -n ELSE n

LastOf(q) == q[Len(q)]

\* The attempts att of one rotation entered with cursor `last`.
RotationShape(last, att) ==
  /\ Len(att) <= WIFI_COUNT
  /\ \A k \in DOMAIN att : att[k].idx = (last + (k - 1)) % WIFI_COUNT
  /\ \A j, k \in DOMAIN att : j # k => att[j].idx # att[k].idx
  /\ \A k \in DOMAIN att : k < Len(att) => ~att[k].ok
  /\ ~LastOf(att).ok => Len(att) = WIFI_COUNT

\* C1: one rotation over N credentials makes at most N attempts, its i-th
\* attempt (from 0) at index (lastSuccessfulWiFiIndex + i) mod N with the
\* cursor read when the rotation starts; no credential is tried twice, every
\* attempt before the last failed, and a rotation whose last attempt failed
\* made all N attempts.
C1_RotationOrder ==
  [][attempts' # <<>> => RotationShape(lastSuccessfulWiFiIndex, attempts')]_vars

\* A rotation that started past index 0, wrapped around and failed everywhere.
C1_Witness ==
  /\ Len(attempts) = WIFI_COUNT
  /\ attempts[1].idx # 0
  /\ \A k \in DOMAIN attempts : ~attempts[k].ok
  /\ ~wifiConnected

\* C2: a rotation that succeeds at index k leaves lastSuccessfulWiFiIndex = k
\* (and the node associated with k); no other step of a run moves the
\* cursor, and every rotation makes its first attempt at the cursor, so the
\* rotation after a success at k starts at k whatever polls, scans and
\* commands came between.  A restart begins a new run with the cursor at 0.
C2_CursorFollowsSuccess ==
  [][LET rotated   == attempts' # <<>>
         succeeded == rotated /\ LastOf(attempts').ok
     IN  /\ succeeded => /\ lastSuccessfulWiFiIndex' = LastOf(attempts').idx
                         /\ wifiAssoc' = LastOf(attempts').idx
                         /\ wifiConnected'
         /\ rotated => attempts'[1].idx = lastSuccessfulWiFiIndex
         /\ (~succeeded /\ pc' # "setup")
              => lastSuccessfulWiFiIndex' = lastSuccessfulWiFiIndex]_vars

\* A rotation that started at a cursor left by an earlier success at index 1
\* and succeeded further on.
C2_Witness ==
  /\ Len(attempts) > 1
  /\ attempts[1].idx = 1
  /\ LastOf(attempts).ok
  /\ lastSuccessfulWiFiIndex = LastOf(attempts).idx

\* C3: every return of resolveMQTTServer reports success with the resolved
\* flag set and a resolved address other than 0.0.0.0: the DNS answer when
\* the lookup succeeded with a non-zero address, the static 192.168.0.109
\* when the lookup failed or answered 0.0.0.0.  The broker address set from
\* it is that address.
C3_ResolveNeverZero ==
  \A k \in DOMAIN resolveLog :
    LET r        == resolveLog[k]
        rejected == ~r.dns.ok \/ r.dns.ip = <<0, 0, 0, 0>>
    IN  /\ r.ret
        /\ r.resolved
        /\ r.ip # <<0, 0, 0, 0>>
        /\ rejected => r.ip = <<192, 168, 0, 109>>
        /\ ~rejected => r.ip = r.dns.ip
        /\ mqttServer = r.ip

\* A lookup that succeeded with 0.0.0.0 and was replaced by the static address.
C3_Witness ==
  \E k \in DOMAIN resolveLog :
    /\ resolveLog[k].dns.ok
    /\ resolveLog[k].dns.ip = <<0, 0, 0, 0>>
    /\ resolveLog[k].ip = <<192, 168, 0, 109>>

\* C4: when setShelfEnabled(i, v) with a valid i has returned, a fresh
\* loadShelfConfig yields enabled = v for slot i and the reference length
\* slot i holds in memory.
C4_EnableWriteThrough ==
  \A k \in DOMAIN calls :
    calls[k].fn = "setShelfEnabled" =>
      LET i      == calls[k].idx
          loaded == loadShelfConfig(Cur).shelfConfig[i]
      IN  /\ loaded.enabled = calls[k].enabled
          /\ loaded.shelf_length = shelfConfig[i].shelf_length

\* A calibrated slot has just been disabled.
C4_Witness ==
  \E k \in DOMAIN calls :
    /\ calls[k].fn = "setShelfEnabled"
    /\ ~calls[k].enabled
    /\ F32Positive(shelfConfig[calls[k].idx].shelf_length)

\* C5: a calibration run with fewer than 5 of its samples in [20, 4000] mm
\* returns -1 and leaves every slot's in-memory configuration and every
\* persisted key as they were.
C5_FailedCalibrationKeepsStore ==
  [][\A k \in DOMAIN calls' :
       (calls'[k].fn = "calibrateShelf"
          /\ Cardinality(InRange(calls'[k].samples)) < 5)
         => /\ calls'[k].ret = F32MinusOne
            /\ shelfConfig' = shelfConfig
            /\ prefs' = prefs]_vars

\* A failed run on a slot that keeps the positive length it was calibrated to.
C5_Witness ==
  \E k \in DOMAIN calls :
    /\ calls[k].fn = "calibrateShelf"
    /\ Cardinality(InRange(calls[k].samples)) = 4
    /\ calls[k].ret = F32MinusOne
    /\ F32Positive(shelfConfig[calls[k].idx].shelf_length)
    /\ F32Positive(PrefsGet(prefs, LengthKey(calls[k].idx), F32Zero))

\* C6 as stated: the value returned and stored by a run with at least 5
\* valid samples is rounded to one decimal place of a centimetre.
C6_RoundedToOneDecimal ==
  \A k \in DOMAIN calls :
    (calls[k].fn = "calibrateShelf"
       /\ Cardinality(InRange(calls[k].samples)) >= 5)
      => calls[k].ret = F32OfTenth(F32Tenths(calls[k].ret))

\* C6: a run with at least 5 valid samples returns a positive length,
\* stores it in the slot and persists it; the length is the mean of the
\* valid samples only, in centimetres, to within 0.002 cm (it is the
\* single-precision mean, not rounded to one decimal place).
C6_MeanOfValidSamples ==
  \A k \in DOMAIN calls :
    (calls[k].fn = "calibrateShelf"
       /\ Cardinality(InRange(calls[k].samples)) >= 5)
      => LET c   == calls[k]
             n   == Cardinality(InRange(c.samples))
             sum == SumAt(c.samples, InRange(c.samples))
         IN  /\ F32Positive(c.ret)
             /\ shelfConfig[c.idx].shelf_length = c.ret
             /\ PrefsGet(prefs, LengthKey(c.idx), F32Zero) = c.ret
             /\ Abs(F32Thousandths(c.ret) * n - 100 * sum) <= 2 * n

\* A run with discarded samples whose stored mean is not a one-decimal value.
C6_Witness ==
  \E k \in DOMAIN calls :
    /\ calls[k].fn = "calibrateShelf"
    /\ Cardinality(InRange(calls[k].samples)) \in 5..9
    /\ shelfConfig[calls[k].idx].shelf_length = calls[k].ret
    /\ calls[k].ret # F32OfTenth(F32Tenths(calls[k].ret))

\* C7: of the samples 198, 201, 199, 15, 202, 197, 4500, 200, 203, 196
\* exactly 15 and 4500 are discarded; the run returns 19.95 cm (the mean
\* 199.5 mm of the other eight) and the calibrate-result message reports
\* shelf_length 19.95 with success true.
C7_ScenarioReports1995 ==
  /\ ValidReadings(<<198, 201, 199, 15, 202, 197, 4500, 200, 203, 196>>)
       = <<F32OfTenth(198), F32OfTenth(201), F32OfTenth(199), F32OfTenth(202),
           F32OfTenth(197), F32OfTenth(200), F32OfTenth(203), F32OfTenth(196)>>
  /\ \A k \in DOMAIN calls :
       (calls[k].fn = "calibrateShelf"
          /\ calls[k].samples = <<198, 201, 199, 15, 202, 197, 4500, 200, 203, 196>>)
         => /\ calls[k].ret = F32Round(1995, 100, 0)
            /\ \E j \in DOMAIN outbox :
                 /\ outbox[j].topic = device_calibrate_response_topic
                 /\ outbox[j].shelf_id = ShelfId(calls[k].idx)
                 /\ outbox[j].success
                 /\ outbox[j].shelf_length_hundredths = 1995

\* The scenario's result message has been published.
C7_Witness ==
  /\ \E k \in DOMAIN calls :
       /\ calls[k].fn = "calibrateShelf"
       /\ calls[k].samples = ScenarioSamples
  /\ \E j \in DOMAIN outbox :
       /\ outbox[j].topic = device_calibrate_response_topic
       /\ outbox[j].success
       /\ outbox[j].shelf_length_hundredths = 1995

\* C8: every message published on shelf/sensor is for a slot that is
\* enabled (no handler changes a flag after it has published).
C8_NoSensorMessageForDisabled ==
  \A j \in DOMAIN outbox :
    outbox[j].topic = mqtt_topic_sensor => shelfConfig[outbox[j].index].enabled

\* A sensor message has been published while another slot is disabled.
C8_Witness ==
  /\ \E j \in DOMAIN outbox : outbox[j].topic = mqtt_topic_sensor
  /\ \E i \in Slots : ~shelfConfig[i].enabled

\* C9 as stated: in every reachable state the sample of every disabled slot
\* is the sentinel -1.
C9_DisabledSlotHoldsSentinel ==
  \A i \in Slots : ~shelfConfig[i].enabled => distance[i] = -1

\* C10 as stated: a slot whose persisted record says enabled with a positive
\* length L (it was calibrated to L and enabled) is listed enabled with
\* shelf_length L in every configuration response, also after a restart.
C10_ConfigSurvivesRestart ==
  \A j \in DOMAIN outbox :
    outbox[j].topic = device_config_response_topic =>
      \A i \in Slots :
        (PrefsGet(prefs, EnabledKey(i), FALSE)
           /\ F32Positive(PrefsGet(prefs, LengthKey(i), F32Zero)))
          => /\ outbox[j].shelves[i + 1].enabled
             /\ outbox[j].shelves[i + 1].shelf_length_hundredths
                  = F32Hundredths(PrefsGet(prefs, LengthKey(i), F32Zero))

\* The messages a step published while dispatching its inbound message:
\* its outbox without the periodic status that follows the dispatch.
CommandMessages(box, per) == IF per THEN SubSeq(box, 1, Len(box) - 1) ELSE box

\* C11: the command "enable a1" leaves slot A1 enabled (in memory and in the
\* persistent store); the command "enable Z9" changes no slot's flag or
\* reference length and no persisted key, and publishes nothing.
C11_UpperCasedLookup ==
  [][/\ handled'.payload = <<"e","n","a","b","l","e"," ","a","1">>
          => /\ shelfConfig'[0].enabled
             /\ PrefsGet(prefs', <<"A","1">>, FALSE)
     /\ handled'.payload = <<"e","n","a","b","l","e"," ","Z","9">>
          => /\ shelfConfig' = shelfConfig
             /\ prefs' = prefs
             /\ CommandMessages(outbox', periodic') = <<>>]_vars

\* "enable a1" has just enabled a slot that was disabled and persisted so.
C11_Witness ==
  /\ handled.payload = <<"e","n","a","b","l","e"," ","a","1">>
  /\ shelfConfig[0].enabled
  /\ calls = <<[fn |-> "setShelfEnabled", idx |-> 0, enabled |-> TRUE]>>
  /\ \E i \in Slots : i # 0 /\ ~shelfConfig[i].enabled

\* C12 as stated: whenever CheckWiFiConnection runs while the radio reports
\* any status other than WL_CONNECTED, the same HostWiFiManager call goes on
\* to the credential rotation.
C12_PollReactsToAnyLoss ==
  [][(polled' /\ wifiStatus # "WL_CONNECTED") => attempts' # <<>>]_vars

\* C13 as stated: with every configured network reachable and the broker
\* accepting, a node whose loop() runs without a broker session eventually
\* has one.
C13_EventuallyOnline == (pc # "setup" /\ ~mqttConnected) ~> mqttConnected

\* C14: every mqttClient.connect, from setupMQTT and from
\* handleMQTTConnection, is made while WiFi.status() is WL_CONNECTED.
C14_ConnectOnlyWhenAssociated ==
  \A k \in DOMAIN connectLog : connectLog[k].wifi = "WL_CONNECTED"

\* A loop() pass has attempted the broker while the radio is associated
\* through a later entry of wifiList.
C14_Witness ==
  /\ pc = "scan"
  /\ connectLog # <<>>
  /\ wifiAssoc # 0
  /\ wifiStatus = "WL_CONNECTED"

\* C15: the resolved broker address is cached.  A reconnect made while the
\* cache is valid resolves nothing and connects to the cached address; a
\* refused connect leaves the cache invalid; an attempt made with the cache
\* invalid calls resolveMQTTServer before it connects, and only such a call
\* makes the cache valid again.
C15_CachedUntilConnectFails ==
  [][/\ (connectLog' # <<>> /\ mqtt_ip_resolved)
          => /\ resolveLog' = <<>>
             /\ connectLog'[1].server = mqtt_server_resolved_ip
     /\ (connectLog' # <<>> /\ ~mqttConnected') => ~mqtt_ip_resolved'
     /\ (connectLog' # <<>> /\ ~mqtt_ip_resolved)
          => /\ resolveLog' # <<>>
             /\ connectLog'[1].server = LastOf(resolveLog').ip
     /\ (~mqtt_ip_resolved /\ mqtt_ip_resolved') => resolveLog' # <<>>]_vars

\* A reconnect with the cached address was refused and the cache dropped.
C15_Witness ==
  /\ pc = "scan"
  /\ connectLog # <<>>
  /\ resolveLog = <<>>
  /\ ~mqttConnected
  /\ ~mqtt_ip_resolved

\* The four topic names, written out.
C16_FourTopics ==
  {"shelf/{id}/command", "shelf/discovery", "shelf/heartbeat",
   "shelf/{id}/config/request"}

\* C16: every accepted connect, the one of setup() and every reconnect,
\* leaves the session subscribed to exactly the device command topic, the
\* discovery topic, the heartbeat topic and the device configuration-request
\* topic, and sends one "online" status and nothing else; hence a connected
\* node is always subscribed to these four.
C16_SubscribeThenOnline ==
  /\ [](mqttConnected => subscriptions = C16_FourTopics)
  /\ [][(connectLog' # <<>> /\ mqttConnected')
          => /\ subscriptions' = C16_FourTopics
             /\ outbox' = <<[topic |-> "shelf/status", text |-> "online"]>>]_vars

\* A reconnect from loop() has been accepted after the session was lost.
C16_Witness ==
  /\ pc = "scan"
  /\ connectLog # <<>>
  /\ mqttConnected
  /\ Cardinality(subscriptions) = 4
  /\ Len(outbox) = 1

\* C17: a publishing operation (status, system status, sensor data of one
\* slot or of all, calibration result, discovery, heartbeat or configuration
\* response) called while the broker session is down sends nothing and
\* changes neither the slot store, the persistent store, the samples nor the
\* session; and nothing was queued: the next accepted connect sends the one
\* "online" status only.
C17_DroppedWhenDisconnected ==
  [][/\ (calls' # <<>> /\ calls'[1].fn \in PublishingOps /\ ~mqttConnected)
          => /\ outbox' = <<>>
             /\ shelfConfig' = shelfConfig
             /\ prefs' = prefs
             /\ distance' = distance
             /\ mqttConnected' = mqttConnected
             /\ subscriptions' = subscriptions
     /\ (connectLog' # <<>> /\ mqttConnected') => Len(outbox') = 1]_vars

\* The configuration response was asked for with the session down.
C17_Witness ==
  /\ calls # <<>>
  /\ calls[1].fn = "handleShelfConfigRequest"
  /\ ~mqttConnected
  /\ wifiStatus = "WL_CONNECTED"
  /\ outbox = <<>>

\* The calibrate commands: for each slot and for the unknown identifier Z9,
\* the payload, the identifier it names and the slot index (-1 = unknown).
CalibrateTargets ==
  {[payload |-> <<"c","a","l","i","b","r","a","t","e"," ">> \o ShelfId(i),
    id |-> ShelfId(i), idx |-> i] : i \in Slots}
  \cup {[payload |-> <<"c","a","l","i","b","r","a","t","e"," ","Z","9">>,
         id |-> <<"Z","9">>, idx |-> -1]}

\* C18: the handling of a calibrate command sends exactly one message, on
\* shelf/{id}/calibrate/response, naming the slot: with success = true and
\* the length now stored for the slot if at least 5 of the 10 samples were
\* valid; with success = false and length -1.00 if fewer were; with
\* success = false and length -1.00, and no measurement, if the identifier
\* is unknown.
C18_OneCalibrationResult ==
  [][\A t \in CalibrateTargets :
       handled'.payload = t.payload =>
         LET msgs == CommandMessages(outbox', periodic')
         IN  /\ Len(msgs) = 1
             /\ msgs[1].topic = "shelf/{id}/calibrate/response"
             /\ msgs[1].shelf_id = t.id
             /\ IF t.idx < 0
                THEN /\ ~msgs[1].success
                     /\ msgs[1].shelf_length_hundredths = -100
                     /\ calls' = <<>>
                     /\ shelfConfig' = shelfConfig
                ELSE /\ Len(calls') = 1
                     /\ calls'[1].fn = "calibrateShelf"
                     /\ calls'[1].idx = t.idx
                     /\ IF Cardinality(InRange(calls'[1].samples)) >= 5
                        THEN /\ msgs[1].success
                             /\ shelfConfig'[t.idx].shelf_length = calls'[1].ret
                             /\ msgs[1].shelf_length_hundredths
                                  = F32Hundredths(shelfConfig'[t.idx].shelf_length)
                             /\ msgs[1].shelf_length_hundredths > 0
                        ELSE /\ ~msgs[1].success
                             /\ msgs[1].shelf_length_hundredths = -100
                             /\ shelfConfig' = shelfConfig]_vars

\* A calibration of A1 with four valid samples has been answered.
C18_Witness ==
  /\ handled.payload = <<"c","a","l","i","b","r","a","t","e"," ","A","1">>
  /\ calls # <<>>
  /\ Cardinality(InRange(calls[1].samples)) = 4
  /\ outbox # <<>>
  /\ ~outbox[1].success
  /\ outbox[1].shelf_length_hundredths = -100

\* The enable and disable commands: for each slot, the verb in lower case
\* with the identifier as the table spells it, and the verb in mixed or
\* upper case with the identifier in lower case and stray blanks; with the
\* slot index and the flag value the command asks for.
EnableTargets ==
  UNION {{[payload |-> <<"e","n","a","b","l","e"," ">> \o ShelfId(i),
           idx |-> i, value |-> TRUE],
          [payload |-> <<"d","i","s","a","b","l","e"," ">> \o ShelfId(i),
           idx |-> i, value |-> FALSE],
          [payload |-> <<" ","E","n","a","b","l","e"," "," ">>
                         \o ToLowerCase(ShelfId(i)) \o <<" ">>,
           idx |-> i, value |-> TRUE],
          [payload |-> <<"D","I","S","A","B","L","E"," "," ">>
                         \o ToLowerCase(ShelfId(i)),
           idx |-> i, value |-> FALSE]}
         : i \in Slots}

\* C19: an enable (disable) command naming a known slot, in any letter case
\* and with blanks around the identifier, leaves that slot's flag true
\* (false) in memory and in the persistent store, leaves the other slots'
\* flags alone, and sends one system status whose enabled_shelf_count is the
\* number of slots enabled after the change.
C19_EnableThenStatus ==
  [][\A t \in EnableTargets :
       handled'.payload = t.payload =>
         LET msgs == CommandMessages(outbox', periodic')
         IN  /\ shelfConfig'[t.idx].enabled = t.value
             /\ PrefsGet(prefs', ShelfId(t.idx), ~t.value) = t.value
             /\ \A j \in Slots \ {t.idx} :
                  shelfConfig'[j].enabled = shelfConfig[j].enabled
             /\ Len(msgs) = 1
             /\ msgs[1].topic = "shelf/status"
             /\ msgs[1].enabled_shelf_count
                  = Cardinality({j \in Slots : shelfConfig'[j].enabled})
             /\ msgs[1].enabled_shelf_count
                  = Cardinality({j \in Slots \ {t.idx} : shelfConfig[j].enabled})
                    + (IF t.value THEN 1 ELSE 0)]_vars

\* "DISABLE  a1" has turned A1 off while another slot stays on: the status
\* counts one enabled slot.
C19_Witness ==
  /\ handled.payload = <<"D","I","S","A","B","L","E"," "," ","a","1">>
  /\ ~shelfConfig[0].enabled
  /\ calls = <<[fn |-> "setShelfEnabled", idx |-> 0, enabled |-> FALSE]>>
  /\ outbox # <<>>
  /\ outbox[1].enabled_shelf_count = 1

\* Payloads whose verb the router does not know: a verb without its
\* argument, a verb left bare once the payload is trimmed, a foreign verb,
\* an empty payload.
UnknownPayloads ==
  {<<"e","n","a","b","l","e">>,
   <<"c","a","l","i","b","r","a","t","e"," ">>,
   <<"r","e","b","o","o","t">>,
   <<>>}

\* C20: a message on the command topic whose verb is not status, read,
\* enable, disable or calibrate, a verb without its argument included, sends
\* nothing and changes neither the slots, the samples, the persistent store,
\* the broker session nor the association.
C20_UnknownCommandIgnored ==
  [][(handled'.topic = "shelf/{id}/command" /\ handled'.payload \in UnknownPayloads)
       => /\ CommandMessages(outbox', periodic') = <<>>
          /\ calls' = <<>>
          /\ measured' = {}
          /\ shelfConfig' = shelfConfig
          /\ distance' = distance
          /\ prefs' = prefs
          /\ mqttConnected' = mqttConnected
          /\ subscriptions' = subscriptions
          /\ mqtt_ip_resolved' = mqtt_ip_resolved
          /\ mqtt_server_resolved_ip' = mqtt_server_resolved_ip
          /\ mqttServer' = mqttServer
          /\ wifiConnected' = wifiConnected
          /\ wifiStatus' = wifiStatus
          /\ lastSuccessfulWiFiIndex' = lastSuccessfulWiFiIndex]_vars

\* "enable" without a slot has been dispatched on a node with a slot on.
C20_Witness ==
  /\ handled = [topic |-> "shelf/{id}/command", payload |-> <<"e","n","a","b","l","e">>]
  /\ outbox = <<>>
  /\ mqttConnected
  /\ \E i \in Slots : shelfConfig[i].enabled

\* The configuration requests by the identity they carry: none, this
\* device's, another device's, and another device's whose text begins with
\* this device's (the serial is printed in hex without padding, so one
\* identity can be the beginning of another).
ConfigRequests ==
  {[payload |-> <<>>, target |-> <<>>],
   [payload |-> <<"{","\"","d","e","v","i","c","e","_","i","d","\"",":","\"">>
                  \o device_id \o <<"\"","}">>,
    target |-> device_id],
   [payload |-> <<"{","\"","d","e","v","i","c","e","_","i","d","\"",":","\"">>
                  \o other_device_id \o <<"\"","}">>,
    target |-> other_device_id],
   [payload |-> <<"{","\"","d","e","v","i","c","e","_","i","d","\"",":","\"">>
                  \o device_id \o <<"1","2","\"","}">>,
    target |-> device_id \o <<"1","2">>]}

\* C21: a configuration request that names another device is answered by
\* nothing and changes nothing; one that names this device, or none, is
\* answered by one configuration response that lists every slot of the
\* static table with its enabled flag and its reference length.
C21_ConfigRequestByIdentity ==
  [][\A t \in ConfigRequests :
       (handled'.topic = "shelf/{id}/config/request" /\ handled'.payload = t.payload) =>
         LET msgs == CommandMessages(outbox', periodic')
         IN  /\ shelfConfig' = shelfConfig
             /\ prefs' = prefs
             /\ distance' = distance
             /\ IF t.target # <<>> /\ t.target # device_id
                THEN msgs = <<>>
                ELSE /\ Len(msgs) = 1
                     /\ msgs[1].topic = "shelf/{id}/config/response"
                     /\ Len(msgs[1].shelves) = SHELF_COUNT
                     /\ \A i \in Slots :
                          /\ msgs[1].shelves[i + 1].shelf_id = ShelfId(i)
                          /\ msgs[1].shelves[i + 1].enabled = shelfConfig[i].enabled
                          /\ msgs[1].shelves[i + 1].shelf_length_hundredths
                               = F32Hundredths(shelfConfig[i].shelf_length)]_vars

\* C22: a scan cycle of loop() reads the sensor of every enabled slot
\* whether or not the broker session is up; with the session up it publishes
\* exactly one shelf/sensor message per enabled slot, in slot order, the
\* slots whose sample of the cycle is the sentinel included; with the session
\* down it publishes nothing.
C22_ScanPublishesEnabledSlots ==
  [][(pc = "scan" /\ pc' = "wifi" /\ measured' # {}) =>
       LET on == {i \in Slots : shelfConfig[i].enabled}
       IN  /\ measured' = on
           /\ IF mqttConnected
              THEN /\ Len(outbox') = Cardinality(on)
                   /\ \A k \in DOMAIN outbox' :
                        /\ outbox'[k].topic = "shelf/sensor"
                        /\ outbox'[k].index \in on
                        /\ outbox'[k].shelf_id = ShelfId(outbox'[k].index)
                        /\ \A j \in 1..(k - 1) : outbox'[j].index < outbox'[k].index
              ELSE outbox' = <<>>]_vars

\* A scan with the session up has published for two enabled slots, the
\* second of which has no reading in this cycle.
C22_Witness ==
  /\ pc = "wifi"
  /\ measured = {0, 1}
  /\ distance[0] # -1
  /\ distance[1] = -1
  /\ Len(outbox) = 2
  /\ outbox[1].index = 0
  /\ outbox[2].index = 1

\* C23 as stated: no message on shelf/sensor carries a distance for a slot
\* whose current sample is the sentinel -1.
C23_NoDistanceForSentinel ==
  \A j \in DOMAIN outbox :
    outbox[j].topic = "shelf/sensor" => distance[outbox[j].index] # -1

\* C24: after a scan (of a scan cycle or of a read command) every slot's
\* sample is -1 or lies in 20..4000 mm; a slot that was read holds -1
\* exactly when its sensor returned less than 20 or more than 4000, and the
\* return itself otherwise.
C24_SampleInRangeOrSentinel ==
  [][DOMAIN readings' # {} =>
       /\ \A i \in Slots : distance'[i] = -1 \/ (distance'[i] >= 20 /\ distance'[i] <= 4000)
       /\ DOMAIN readings' = {i \in Slots : shelfConfig[i].enabled}
       /\ \A i \in DOMAIN readings' :
            /\ distance'[i] = -1 <=> (readings'[i] < 20 \/ readings'[i] > 4000)
            /\ distance'[i] # -1 => distance'[i] = readings'[i]]_vars

\* A scan has kept a return of exactly 20 mm and dropped one of 4001 mm.
C24_Witness ==
  /\ DOMAIN readings = {0, 1}
  /\ readings[0] = 20
  /\ readings[1] = 4001
  /\ distance[0] = 20
  /\ distance[1] = -1

\* C25: a scan, of a scan cycle or of a read command, reads the sensors of
\* the enabled slots only; the sensor of a disabled slot is read in a step
\* only by the calibrateShelf call of a calibrate command for that slot.
C25_DisabledSlotNotScanned ==
  [][/\ DOMAIN readings' \subseteq {i \in Slots : shelfConfig[i].enabled}
     /\ (pc = "scan" \/ handled'.payload = <<"r","e","a","d">>)
          => measured' \subseteq {i \in Slots : shelfConfig[i].enabled}
     /\ \A i \in measured' :
          ~shelfConfig[i].enabled
            => /\ handled'.payload = <<"c","a","l","i","b","r","a","t","e"," ">> \o ShelfId(i)
               /\ \E k \in DOMAIN calls' :
                    calls'[k].fn = "calibrateShelf" /\ calls'[k].idx = i]_vars

\* A scan has read A2 and left the disabled A1 alone.
C25_Witness ==
  /\ DOMAIN readings = {1}
  /\ measured = {1}
  /\ ~shelfConfig[0].enabled
  /\ distance[0] = -1

\* A payload that the router takes for an enable, disable or calibrate
\* command: trimmed and in lower case it begins with the verb and a blank.
IsSlotCommand(payload) ==
  \E verb \in {<<"e","n","a","b","l","e"," ">>,
               <<"d","i","s","a","b","l","e"," ">>,
               <<"c","a","l","i","b","r","a","t","e"," ">>} :
    StartsWith(ToLowerCase(Trim(payload)), verb)

\* C26: the enabled flags, the reference lengths and the persistent store
\* change only in the handling of an enable, disable or calibrate command,
\* and the flags and lengths in memory also at boot; every other step (scan
\* cycle, status, read, discovery, heartbeat, configuration request, Wi-Fi
\* rotation, broker connect) leaves all three as they were.  The store holds
\* nothing but the flag and the length of slots: no sample.
C26_StoreChangesOnlyByCommand ==
  /\ [][/\ prefs' # prefs
             => /\ handled'.topic = "shelf/{id}/command"
                /\ IsSlotCommand(handled'.payload)
        /\ shelfConfig' # shelfConfig
             => \/ /\ handled'.topic = "shelf/{id}/command"
                   /\ IsSlotCommand(handled'.payload)
                \/ pc # "setup" /\ pc' = "setup"]_vars
  /\ [](\A key \in DOMAIN prefs :
          \E i \in Slots : key = ShelfId(i) \/ key = ShelfId(i) \o <<"_","l","e","n">>)

\* A scan has read an enabled, calibrated slot and left the store alone.
C26_Witness ==
  /\ pc = "wifi"
  /\ DOMAIN readings # {}
  /\ \E i \in Slots :
       /\ shelfConfig[i].enabled
       /\ F32Positive(shelfConfig[i].shelf_length)
       /\ PrefsGet(prefs, ShelfId(i), FALSE)

C28_RotationOnlyAtPoll ==
  [][(pc = "wifi" /\ ~wifiConnected /\ attempts' # <<>>) => polled']_vars

C30_LoadAppliesStoreOrDefaults ==
  [][calls' = <<[fn |-> "loadShelfConfig"]>> =>
       /\ prefs' = prefs
       /\ \A i \in Slots :
            /\ shelfConfig'[i].enabled
                 = (IF ShelfId(i) \in DOMAIN prefs THEN prefs[ShelfId(i)] ELSE FALSE)
            /\ shelfConfig'[i].shelf_length
                 = (IF ShelfId(i) \o <<"_","l","e","n">> \in DOMAIN prefs
                    THEN prefs[ShelfId(i) \o <<"_","l","e","n">>]
                    ELSE [m |-> 0, e |-> 0])]_vars

\* A load over a store that holds A1 enabled with a length and nothing
\* about A2.
C30_Witness ==
  /\ calls = <<[fn |-> "loadShelfConfig"]>>
  /\ DOMAIN prefs = {<<"A","1">>, <<"A","1","_","l","e","n">>}
  /\ shelfConfig[0].enabled
  /\ F32Positive(shelfConfig[0].shelf_length)
  /\ ~shelfConfig[1].enabled
  /\ shelfConfig[1].shelf_length = [m |-> 0, e |-> 0]

\* C31: after clearAllShelfConfig, whatever commands came before it, the
\* store holds no slot key, and the loadShelfConfig that follows leaves every
\* slot disabled with length 0.
C31_ClearErasesEverySlot ==
  /\ [][calls' = <<[fn |-> "clearAllShelfConfig"]>>
          => \A i \in Slots : /\ EnabledKey(i) \notin DOMAIN prefs'
                              /\ LengthKey(i) \notin DOMAIN prefs']_vars
  /\ [][(calls = <<[fn |-> "clearAllShelfConfig"]>>
           /\ calls' = <<[fn |-> "loadShelfConfig"]>>)
          => \A i \in Slots : /\ shelfConfig'[i].enabled = FALSE
                              /\ shelfConfig'[i].shelf_length = F32Zero]_vars

\* A load has just run on an empty store, on a node whose first slot had been
\* enabled by command (its flag written to the store) and scanned: the store
\* was cleared in between, and the load left every slot disabled.
C31_Witness ==
  /\ calls = <<[fn |-> "loadShelfConfig"]>>
  /\ prefs = PrefsEmpty
  /\ \A i \in Slots : ~shelfConfig[i].enabled /\ shelfConfig[i].shelf_length = F32Zero
  /\ distance[0] = 250

\* C32: getShelfIndexById returns the index of the slot whose identifier is
\* the argument, character for character, and -1 for every other string: a
\* lower-case spelling of an identifier, a prefix or an extension of one, the
\* empty string, an identifier that is not in the table.
C32_ExactCaseSensitiveLookup ==
  \A k \in 1..Len(calls) :
    calls[k].fn = "getShelfIndexById"
      => /\ \A i \in Slots : (calls[k].id = ShelfId(i)) <=> (calls[k].ret = i)
         /\ (calls[k].id \notin {ShelfId(i) : i \in Slots}) <=> (calls[k].ret = -1)
         /\ calls[k].ret \in Slots \cup {-1}

\* The lookup of "a1" has returned not-found.
C32_Witness ==
  calls = <<[fn |-> "getShelfIndexById", id |-> <<"a","1">>, ret |-> -1]>>

\* A shelf/status message of the structured form (the model carries every
\* field but uptime_ms, the clock's reading).
IsStructuredStatus(m) ==
  /\ m.topic = "shelf/status"
  /\ {"device_id", "wifi", "mqtt", "shelf_count", "enabled_shelf_count"} \subseteq DOMAIN m

\* The periodic part of C33: the periodic status block runs only in a
\* connected session and, each time it runs, ends the step with one
\* structured status.
C33_PeriodicStatusWhileConnected ==
  [][periodic' => /\ mqttConnected
                  /\ outbox' # <<>>
                  /\ IsStructuredStatus(outbox'[Len(outbox')])]_vars

\* C33: every accepted broker connect publishes a status message of the
\* structured form {device_id, wifi, mqtt, uptime_ms, shelf_count,
\* enabled_shelf_count} on shelf/status, and so does the periodic status
\* block each time it is due in a connected session; no periodic status is
\* sent while disconnected.
C33_StructuredStatusOnConnectAndPeriod ==
  /\ [][(connectLog' # <<>> /\ mqttConnected')
          => \E k \in 1..Len(outbox') : IsStructuredStatus(outbox'[k])]_vars
  /\ C33_PeriodicStatusWhileConnected

\* The slot an identifier of the table belongs to.
SlotOf(id) == CHOOSE i \in Slots : ShelfId(i) = id

\* C34: each discovery request dispatched (the session is connected) is
\* answered by one message on shelf/discovery/response that carries this
\* device's identity, whose shelves list holds exactly the identifiers of the
\* slots enabled at that time, each once and in slot order, whose
\* enabled_shelves is the length of that list and whose total_shelves is the
\* number of configured slots; each heartbeat request is answered by one
\* message on shelf/heartbeat/response with this device's identity and
\* status online.
C34_DiscoveryAndHeartbeatReplies ==
  /\ [][handled'.topic = "shelf/discovery"
          => LET box == CommandMessages(outbox', periodic')
                 on  == {i \in Slots : shelfConfig[i].enabled}
             IN  /\ Len(box) = 1
                 /\ box[1].topic = "shelf/discovery/response"
                 /\ box[1].device_id = device_id
                 /\ {box[1].shelves[k] : k \in 1..Len(box[1].shelves)}
                       = {ShelfId(i) : i \in on}
                 /\ \A a, b \in 1..Len(box[1].shelves) :
                       a < b => SlotOf(box[1].shelves[a]) < SlotOf(box[1].shelves[b])
                 /\ box[1].enabled_shelves = Len(box[1].shelves)
                 /\ box[1].total_shelves = MaxShelves
                 /\ shelfConfig' = shelfConfig]_vars
  /\ [][handled'.topic = "shelf/heartbeat"
          => CommandMessages(outbox', periodic')
               = <<[topic |-> "shelf/heartbeat/response",
                    device_id |-> device_id, status |-> "online"]>>]_vars

\* A discovery request answered while only the second slot is enabled.
C34_Witness ==
  /\ handled.topic = "shelf/discovery"
  /\ ~shelfConfig[0].enabled
  /\ shelfConfig[1].enabled
  /\ outbox # <<>>
  /\ outbox[1].shelves = <<ShelfId(1)>>

\* C35: every association attempt starts from a radio that holds no
\* association, so the radio holds at most one, that of the last attempt if
\* it succeeded: a rotation in which every attempt fails leaves the node not
\* associated, whatever the radio held when the rotation began, and a
\* rotation that succeeds leaves it associated with the network of its last
\* attempt.
C35_DisconnectBeforeEachAttempt ==
  /\ [](wifiAssoc \in Credentials \cup {-1})
  /\ []((wifiStatus = "WL_CONNECTED") <=> (wifiAssoc \in Credentials))
  /\ [][(attempts' # <<>> /\ \A k \in 1..Len(attempts') : ~attempts'[k].ok)
          => /\ wifiAssoc' = -1
             /\ wifiStatus' # "WL_CONNECTED"
             /\ ~wifiConnected']_vars
  /\ [][(attempts' # <<>> /\ attempts'[Len(attempts')].ok)
          => /\ wifiAssoc' = attempts'[Len(attempts')].idx
             /\ wifiStatus' = "WL_CONNECTED"]_vars

\* A rotation run outside the periodic check has just failed on every
\* credential while a broker session made over an earlier association is
\* still open: the node is left not associated.
C35_Witness ==
  /\ Len(attempts) = WIFI_COUNT
  /\ \A k \in 1..Len(attempts) : ~attempts[k].ok
  /\ wifiAssoc = -1
  /\ ~polled
  /\ pc = "mqtt"
  /\ mqttConnected

\* C36: lastSuccessfulWiFiIndex is an index of the credential list in every
\* state, and within one run of the program (a reset re-initialises it with
\* the rest of RAM) only a step whose rotation ended in a successful attempt
\* changes it: a rotation that fails on every credential, a poll, a broker
\* event, a lost link or a dispatched message leaves it as it was.
C36_CursorInRangeAndStable ==
  /\ [](lastSuccessfulWiFiIndex \in 0..(MaxWiFi - 1))
  /\ [][(lastSuccessfulWiFiIndex' # lastSuccessfulWiFiIndex /\ pc' # "setup")
          => /\ attempts' # <<>>
             /\ attempts'[Len(attempts')].ok]_vars
  /\ [][(pc' # "setup"
           /\ \/ attempts' = <<>>
              \/ \A k \in 1..Len(attempts') : ~attempts'[k].ok)
          => lastSuccessfulWiFiIndex' = lastSuccessfulWiFiIndex]_vars

\* Every credential has just failed in a rotation that began at the second
\* entry, and the cursor still names that entry.
C36_Witness ==
  /\ Len(attempts) = WIFI_COUNT
  /\ attempts[1].idx = 1
  /\ \A k \in 1..Len(attempts) : ~attempts[k].ok
  /\ lastSuccessfulWiFiIndex = 1

\* What the store holds for a slot, read as loadShelfConfig reads it.
StoredEnabled(store, i) == PrefsGet(store, EnabledKey(i), FALSE)

StoredLength(store, i) == PrefsGet(store, LengthKey(i), F32Zero)

\* The part of C37 about the in-memory table and about the other slots: a
\* setShelfEnabled call on slot X leaves X's length in memory, a
\* calibrateShelf call on X leaves X's flag in memory and succeeds on five
\* valid samples whether X is enabled or not, and both leave the in-memory
\* entry and the persisted keys of every other slot as they were.
C37_FrameInMemoryAndOtherSlots ==
  [][\A k \in DOMAIN calls' :
       calls'[k].fn \in {"setShelfEnabled", "calibrateShelf"}
         => LET X == calls'[k].idx
            IN  /\ calls'[k].fn = "setShelfEnabled"
                      => shelfConfig'[X].shelf_length = shelfConfig[X].shelf_length
                /\ calls'[k].fn = "calibrateShelf"
                      => /\ shelfConfig'[X].enabled = shelfConfig[X].enabled
                         /\ Cardinality(InRange(calls'[k].samples)) >= 5
                               => /\ calls'[k].ret # F32MinusOne
                                  /\ shelfConfig'[X].shelf_length = calls'[k].ret
                /\ \A j \in Slots \ {X} :
                      /\ shelfConfig'[j] = shelfConfig[j]
                      /\ \A key \in {EnabledKey(j), LengthKey(j)} :
                            /\ (key \in DOMAIN prefs') <=> (key \in DOMAIN prefs)
                            /\ key \in DOMAIN prefs => prefs'[key] = prefs[key]]_vars

\* C37: slot updates are independent per field and per slot, in memory and
\* in the store: an enable or disable of slot X leaves X's reference length
\* as it was in memory and in the store, a calibration of X leaves X's
\* enabled flag as it was in memory and in the store, and a command on X
\* leaves every other slot's entry and persisted keys as they were.
C37_SlotUpdatesIndependent ==
  /\ C37_FrameInMemoryAndOtherSlots
  /\ [][\A k \in DOMAIN calls' :
          LET X == calls'[k].idx
          IN  /\ calls'[k].fn = "setShelfEnabled"
                    => StoredLength(prefs', X) = StoredLength(prefs, X)
              /\ calls'[k].fn = "calibrateShelf"
                    => StoredEnabled(prefs', X) = StoredEnabled(prefs, X)]_vars

\* The store and the in-memory table agree on every slot's flag and length.
StoreMatchesMemory ==
  \A i \in Slots : /\ StoredEnabled(prefs, i) = shelfConfig[i].enabled
                   /\ StoredLength(prefs, i) = shelfConfig[i].shelf_length

\* C38: the store and the in-memory table agree on a factory-fresh node and
\* after every loadShelfConfig, and every step of the program other than
\* clearAllShelfConfig keeps them in agreement: enable, disable and calibrate
\* commands, successful or failed, answered or not, scans, reconnects.  A
\* power cycle resets the table and not the store, so they agree again only
\* once the configuration has been reloaded.  Hence, when every boot reloads
\* and clear is never called, they agree between any two handlers.
C38_StoreMatchesMemory ==
  /\ StoreMatchesMemory
  /\ [][calls' = <<[fn |-> "loadShelfConfig"]>> => StoreMatchesMemory']_vars
  /\ [][(/\ StoreMatchesMemory
         /\ calls' # <<[fn |-> "clearAllShelfConfig"]>>
         /\ ~(pc # "setup" /\ pc' = "setup"))
          => StoreMatchesMemory']_vars

\* A boot has just reloaded the configuration that commands had written
\* before the power cycle: the first slot is enabled and calibrated again.
C38_Witness ==
  /\ pc = "setup"
  /\ calls = <<[fn |-> "loadShelfConfig"]>>
  /\ shelfConfig[0].enabled
  /\ F32Positive(shelfConfig[0].shelf_length)
  /\ StoreMatchesMemory

\* The sample readAllShelfSensors keeps for a raw sensor return.
KeptSample(raw) == IF raw >= 20 /\ raw <= 4000 THEN raw ELSE -1

\* C39: every shelf/sensor message published by a step of the program (a
\* scan cycle or a read command) is for a slot that is enabled and whose
\* sensor was read in that same step, and carries the sample kept from that
\* reading: never the initial 0 and never a sample of an earlier cycle.
C39_PublishedSampleIsFresh ==
  [][\A k \in DOMAIN outbox' :
       outbox'[k].topic = "shelf/sensor"
         => LET i == outbox'[k].index
            IN  /\ i \in DOMAIN readings'
                /\ i \in measured'
                /\ shelfConfig[i].enabled /\ shelfConfig'[i].enabled
                /\ distance'[i] = KeptSample(readings'[i])
                /\ outbox'[k].distance_cm_tenths = DistanceTenths(KeptSample(readings'[i]))
                /\ \/ pc = "scan"
                   \/ pc = "mqtt" /\ ToLowerCase(Trim(handled'.payload)) = VerbRead]_vars

\* A read command has published 2.0 cm for the first slot, the sample its
\* own scan has just read.
C39_Witness ==
  /\ handled.payload = VerbRead
  /\ 0 \in DOMAIN readings
  /\ readings[0] = 20
  /\ outbox # <<>>
  /\ outbox[1].topic = "shelf/sensor"
  /\ outbox[1].index = 0
  /\ outbox[1].distance_cm_tenths = DistanceTenths(20)

\* The documented periods of the four triggers, in milliseconds.
C40_Interval ==
  [lastSensorRead |-> 5000, lastMQTTReconnect |-> 5000,
   lastStatusPublish |-> 30000, lastCheckTime |-> 60000]

\* C40: whatever the 32-bit clock reads, and across its wrap from 2^32 - 1
\* to 0, a trigger that is tested fires exactly when the time really passed
\* since it last fired has reached its period (5 s scan, 5 s reconnect, 30 s
\* status, 60 s Wi-Fi check): never earlier, and always once the period has
\* passed; when it fires, its timestamp becomes the clock's reading.
C40_TriggersSurviveWrap ==
  [][clock' # clock
       => /\ clock'.fired <=> (clock'.elapsed >= C40_Interval[clock'.tested])
          /\ clock'.fired => clock'.last[clock'.tested] = clock'.now]_vars

\* The clock has wrapped since the trigger tested last fired, and the
\* trigger has fired now that its period has passed.
C40_Witness ==
  /\ clock.fired
  /\ clock.now[1] = 0
  /\ clock.elapsed > clock.now[2]
  /\ clock.elapsed >= C40_Interval[clock.tested]

====
